---- MODULE Spec2Model ----
(***************************************************************************)
(* Verification model of the Brain Chat provider layer:                    *)
(*   - the streaming sendMessage of the three provider adapters            *)
(*     (src/lib/providers/anthropic.ts, src/lib/providers/openai.ts, the   *)
(*     Gemini adapter being the second half of openai.ts), one turn of one *)
(*     call, with its tool-call continuation loop;                         *)
(*   - the provider preference store of src/lib/providers/index.ts.        *)
(*                                                                         *)
(* Text is a sequence of characters, so that concatenation is \o.          *)
(* The vendor's stream is an input: each parsed "data: " line is one step. *)
(***************************************************************************)
EXTENDS Integers, Sequences, FiniteSets, TLC

\* ------------------------------------------------------------------ bounds
\* what the vendor does in one turn: content events (text delta, tool call, Gemini
\* usage chunk) plus tool rounds
MaxSteps == 3

\* ------------------------------------------------------------- input sets
Adapters == {"anthropic", "openai", "gemini"}
Deltas == {<<>>, <<"a">>, <<"b">>}
Paths == {"p1"}
ToolNames == {"load_file", "other"}
ToolArgs == Paths \cup {"bad"}
TokVals == {0, 1}
LoaderOutcomes == {"ok", "none", "errmark", "throw"}
\* non-2xx responses: the status and the error.message of the payload ("" for none)
ErrorResponses ==
  { [status |-> 401, msg |-> ""], [status |-> 500, msg |-> "overloaded"],
    [status |-> 500, msg |-> "blocked by policy"] }

VARIABLES
  adapter,        \* which adapter's sendMessage runs
  hasLoader,      \* options.loadFileContents was supplied
  modelId,        \* options.modelId of the call
  fn,             \* the library function applied last, with its arguments
  ret,            \* what that function returned
  pc,             \* position of the call
  trace,          \* observable effects in order: callbacks, fetches, loader calls
  msgs,           \* currentMessages / currentContents of the current request
  fullResponse,   \* let fullResponse
  inputTokens,    \* let inputTokens
  outputTokens,   \* let outputTokens
  pending,        \* pendingToolCalls / pendingFunctionCalls of the round
  finishReason,   \* stopReason (Anthropic) / finishReason (OpenAI, Gemini)
  toolResults,    \* toolResults / functionResponses built so far
  ti,             \* index in pending of the call whose loader is awaited
  resp,           \* the non-2xx response whose error body is being read
  steps,          \* ghost: content events and tool rounds so far in the turn
  abortedAt,      \* "no", or the position of the call when abortSignal fired
  fault,          \* ghost: the request or stream failure that occurred
  toolSeen,       \* ghost: the vendor's streams contained a tool call
  made,           \* ghost: the load_file calls the vendor's streams contained, in order
  seen,           \* ghost: the once-per-stream events the vendor already sent
  roundIn,        \* ghost: input tokens the vendor reported for this round
  roundOut,       \* ghost: output tokens the vendor reported for this round
  sumIn,          \* ghost: input tokens reported for the drained earlier rounds
  sumOut,         \* ghost: output tokens reported for the drained earlier rounds
  storageAvailable, \* safeLocalStorage() returns a Storage
  storage,        \* window.localStorage: item name -> string
  lastCall,       \* ghost: the last store operation, its arguments, and the provider
                  \* getActiveProvider returned before it
  input,          \* chat page: useState input
  isStreaming,    \* chat page: useState isStreaming
  messages,       \* chat page: useState messages
  streamingContent, \* chat page: useState streamingContent
  loadedFiles,    \* chat page: useState loadedFiles, as the paths of the files
  showApiKeyModal, \* chat page: useState showApiKeyModal
  sends,          \* chat page: the accepted handleSendMessage invocations
  loads,          \* chat page: the loadDefaultFiles / handleLoadFiles calls awaiting
                  \* loadFileContents
  activeProvider, \* chat page: useState activeProvider, whose models the menu lists
  selectedModelId \* chat page: useState selectedModelId

\* what neither a turn nor a store operation changes
pureVars == <<fn, ret>>
pageVars == <<input, isStreaming, messages, streamingContent, loadedFiles, showApiKeyModal,
              sends, loads, activeProvider, selectedModelId>>
cfgVars == <<adapter, hasLoader, modelId, pureVars, pageVars>>
usageVars == <<inputTokens, outputTokens>>
toolVars == <<pending, toolResults, ti>>
callVars == <<toolSeen, made>>
vendorVars == <<seen, roundIn, roundOut, sumIn, sumOut>>
turnVars == <<cfgVars, pc, trace, msgs, fullResponse, usageVars, toolVars, finishReason,
              resp, steps, abortedAt, fault, callVars, vendorVars>>
storeVars == <<storageAvailable, storage, lastCall>>
vars == <<turnVars, storeVars>>

\* ------------------------------------------------------------ model catalog
\* Prices are in cents per million tokens; a cost is in millionths of a cent, so that
\* (tokens / 1_000_000) * price is tokens * price.
Million == 1000000
WEB_SEARCH_COST == 1

MODELS ==
  << [id |-> "claude-haiku-4-5-20251001", provider |-> "anthropic", tier |-> "cheap",
      inputCostPerMillion |-> 100, outputCostPerMillion |-> 500],
     [id |-> "claude-sonnet-4-5-20250929", provider |-> "anthropic", tier |-> "better",
      inputCostPerMillion |-> 300, outputCostPerMillion |-> 1500],
     [id |-> "gpt-5-nano", provider |-> "openai", tier |-> "cheap",
      inputCostPerMillion |-> 5, outputCostPerMillion |-> 40],
     [id |-> "gpt-5-mini", provider |-> "openai", tier |-> "better",
      inputCostPerMillion |-> 25, outputCostPerMillion |-> 200],
     [id |-> "gemini-3-flash-preview", provider |-> "gemini", tier |-> "cheap",
      inputCostPerMillion |-> 50, outputCostPerMillion |-> 300],
     [id |-> "gemini-3-pro-preview", provider |-> "gemini", tier |-> "better",
      inputCostPerMillion |-> 200, outputCostPerMillion |-> 1200] >>

CatalogIds == {MODELS[k].id : k \in 1..Len(MODELS)}
UnknownIds == {"gpt-4o", ""}

\* Array.prototype.find: the first element that satisfies the test, or undefined
Undefined == [id |-> "<undefined>"]
Find(seq, hits) ==
  IF hits = {} THEN Undefined ELSE seq[CHOOSE k \in hits : \A j \in hits : k <= j]

getModelById(id) == Find(MODELS, {k \in 1..Len(MODELS) : MODELS[k].id = id})
getModelsForProvider(p) == SelectSeq(MODELS, LAMBDA m : m.provider = p)

getDefaultModelForProvider(p) ==
  LET models == getModelsForProvider(p)
      cheap == Find(models, {k \in 1..Len(models) : models[k].tier = "cheap"})
  IN IF cheap # Undefined THEN cheap ELSE models[1]

\* a cost that bills input tokens at the output rate and output tokens at the input rate
calculateCostSwappedRates(i, o, id, w) ==
  LET model == getModelById(id) IN
  IF model = Undefined THEN 0
  ELSE i * model.outputCostPerMillion + o * model.inputCostPerMillion
         + w * WEB_SEARCH_COST * Million

\* a cost that bills a model it does not know at the rates of the first catalog model
calculateCostFirstModelFallback(i, o, id, w) ==
  LET found == getModelById(id)
      model == IF found = Undefined THEN MODELS[1] ELSE found
  IN i * model.inputCostPerMillion + o * model.outputCostPerMillion
       + w * WEB_SEARCH_COST * Million

calculateCost(i, o, id, w) ==
  LET model == getModelById(id) IN
  IF model = Undefined THEN 0
  ELSE LET inputCost == i * model.inputCostPerMillion
           outputCost == o * model.outputCostPerMillion
           searchCost == w * WEB_SEARCH_COST * Million
       IN inputCost + outputCost + searchCost

\* ------------------------------------------------------- trace vocabulary
EvStart == [e |-> "onStart"]
EvToken(d) == [e |-> "onToken", text |-> d]
EvUsage(i, o) ==
  [e |-> "onUsage", inputTokens |-> i, outputTokens |-> o, webSearches |-> 0,
   cost |-> calculateCost(i, o, modelId, 0)]
EvComplete(t) == [e |-> "onComplete", text |-> t]
EvError(m) == [e |-> "onError", msg |-> m]
EvFileLoad(p) == [e |-> "onFileLoad", path |-> p]
EvFileLoaded(p, ok) == [e |-> "onFileLoaded", path |-> p, ok |-> ok]
EvFetch(conv) == [e |-> "fetch", conv |-> conv]
EvLoader(id, p) == [e |-> "loader", id |-> id, path |-> p]
EvLoaderReturn(id, p, outcome) == [e |-> "loaderReturn", id |-> id, path |-> p, outcome |-> outcome]

Count(name) == Cardinality({i \in 1..Len(trace) : trace[i].e = name})
Positions(name) == {i \in 1..Len(trace) : trace[i].e = name}
Fetches == SelectSeq(trace, LAMBDA x : x.e = "fetch")

RECURSIVE Concat(_)
Concat(ss) == IF ss = <<>> THEN <<>> ELSE Head(ss) \o Concat(Tail(ss))

\* ------------------------------------------------------------ conversation
Msg(role, text, calls, results) ==
  [role |-> role, text |-> text, calls |-> calls, results |-> results]

UserQuestion == <<"q">>
SystemPrompt == <<"s">>

\* the conversation of the first request, built from options.messages
InitialConversation(a) ==
  IF a = "openai"
  THEN << Msg("developer", SystemPrompt, <<>>, <<>>), Msg("user", UserQuestion, <<>>, <<>>) >>
  ELSE << Msg("user", UserQuestion, <<>>, <<>>) >>

\* ------------------------------------------------------------ error funnel
AbortError == [name |-> "AbortError", message |-> "aborted"]
Err(m) == [name |-> "Error", message |-> m]

ApiErrorText(status) == IF status = 401 THEN "API error: 401" ELSE "API error: 500"

\* error.error?.message || `API error: ${response.status}`
HttpErrorMessage(status, vendorMsg) ==
  IF vendorMsg # "" THEN vendorMsg ELSE ApiErrorText(status)

MentionsBlocked(m) == m = "blocked by policy"

\* a catch that swallows aborts only and rethrows everything else
TopLevelCatchRethrow(a, err, tr) ==
  IF err.name = "AbortError"
  THEN [pc |-> "done", trace |-> tr]
  ELSE [pc |-> "rejected", trace |-> tr]

\* a catch that issues the request once more before it reports the failure
TopLevelCatchRetry(a, err, tr) ==
  IF err.name = "AbortError"
  THEN [pc |-> "done", trace |-> tr]
  ELSE [pc |-> "done", trace |-> tr \o << EvFetch(<<>>), EvError(err.message) >>]

\* the catch of sendMessage: what the call reports and how it ends
TopLevelCatch(a, err, tr) ==
  IF err.name = "AbortError"
  THEN [pc |-> "done", trace |-> tr]
  ELSE IF a = "gemini" /\ MentionsBlocked(err.message)
  THEN [pc |-> "done", trace |-> Append(tr, EvError("Response was blocked by safety filters"))]
  ELSE [pc |-> "done", trace |-> Append(tr, EvError(err.message))]

\* ------------------------------------------------------------------- Init
TurnFresh ==
  /\ pc = "idle"
  /\ trace = <<>>
  /\ msgs = <<>>
  /\ fullResponse = <<>>
  /\ inputTokens = 0
  /\ outputTokens = 0
  /\ pending = <<>>
  /\ finishReason = ""
  /\ toolResults = <<>>
  /\ ti = 0
  /\ resp = [status |-> 0, msg |-> ""]
  /\ abortedAt = "no"
  /\ fault = "none"
  /\ toolSeen = FALSE
  /\ made = <<>>
  /\ seen = {}
  /\ roundIn = 0
  /\ roundOut = 0
  /\ sumIn = 0
  /\ sumOut = 0
TurnIdle == TurnFresh /\ steps = 0

EmptyStorage == [k \in {} |-> ""]
NoFn == [name |-> "none"]
PureIdle == fn = NoFn /\ ret = 0
\* the chat page before it is mounted
PageIdle ==
  /\ input = <<>>
  /\ isStreaming = FALSE
  /\ messages = <<>>
  /\ streamingContent = <<>>
  /\ loadedFiles = <<>>
  /\ showApiKeyModal = FALSE
  /\ sends = <<>>
  /\ loads = <<>>
  /\ activeProvider = "anthropic"
  /\ selectedModelId = ""
\* the model ids a turn is run with: the provider's default model, and one unknown
TurnModelIds(a) == {getDefaultModelForProvider(a).id, "gpt-4o-legacy"}
NoCall == [op |-> "none", provider |-> "anthropic", key |-> "", before |-> "anthropic"]

Init ==
  /\ adapter \in Adapters
  /\ hasLoader \in BOOLEAN
  /\ modelId \in TurnModelIds(adapter)
  /\ PureIdle
  /\ PageIdle
  /\ TurnIdle
  /\ storageAvailable = TRUE
  /\ storage = EmptyStorage
  /\ lastCall = NoCall

\* ------------------------------------------------------------ sendMessage
aborted == abortedAt # "no"

\* onStart announced again with every request
RequestEventsRestart(conv) == << EvStart, EvFetch(conv) >>

\* what one streaming request makes observable when it is issued
RequestEvents(conv) == << EvFetch(conv) >>

\* callbacks.onStart?.() and the first makeStreamingRequest, up to its fetch
SendMessage ==
  /\ pc = "idle"
  /\ msgs' = InitialConversation(adapter)
  /\ trace' = <<EvStart>> \o RequestEvents(InitialConversation(adapter))
  /\ pc' = "fetch"
  /\ UNCHANGED <<cfgVars, fullResponse, usageVars, toolVars, finishReason, resp, steps,
                 abortedAt, fault, callVars, vendorVars, storeVars>>

\* how the call ends when err is thrown inside makeStreamingRequest
Throw(err, kind) ==
  LET c == TopLevelCatch(adapter, err, trace) IN
  /\ pc' = c.pc
  /\ trace' = c.trace
  /\ fault' = kind
  /\ UNCHANGED <<cfgVars, msgs, fullResponse, usageVars, toolVars, finishReason, resp,
                 steps, abortedAt, callVars, vendorVars, storeVars>>

\* fetch resolves with a 2xx response that has a body
FetchOk ==
  /\ pc = "fetch"
  /\ pc' = "stream"
  /\ UNCHANGED <<cfgVars, trace, msgs, fullResponse, usageVars, toolVars, finishReason,
                 resp, steps, abortedAt, fault, callVars, vendorVars, storeVars>>

\* fetch resolves with a 2xx response without a body: throw new Error('No response body')
FetchNoBody ==
  /\ pc = "fetch"
  /\ Throw(Err("No response body"), "nobody")

\* fetch rejects (network failure)
FetchNetworkError ==
  /\ pc = "fetch"
  /\ Throw(Err("Failed to fetch"), "network")

\* fetch resolves with a non-2xx response: await response.json() is pending
FetchStatus ==
  /\ pc = "fetch"
  /\ \E r \in ErrorResponses : resp' = r
  /\ pc' = "errbody"
  /\ fault' = "http"
  /\ UNCHANGED <<cfgVars, trace, msgs, fullResponse, usageVars, toolVars, finishReason,
                 steps, abortedAt, callVars, vendorVars, storeVars>>

\* response.json() settles (a body that is no JSON gives {}): throw new Error(...)
ErrorBodyRead ==
  /\ pc = "errbody"
  /\ Throw(Err(HttpErrorMessage(resp.status, resp.msg)), "http")

\* reader.read() rejects with a transport error
ReadError ==
  /\ pc = "stream"
  /\ Throw(Err("network error"), "read")

\* ----------------------------------------------------------- stream events
\* a text delta: if (delta.text) { fullResponse += delta.text; onToken(delta.text) }
TextDelta(full, d) ==
  IF d # <<>>
  THEN [full |-> full \o d, emit |-> << EvToken(d) >>]
  ELSE [full |-> full, emit |-> <<>>]

\* the vendor sends content before the event that closes its stream
ContentOpen ==
  /\ pc = "stream"
  /\ steps < MaxSteps
  /\ seen \cap {"message_delta", "finish", "usage"} = {}

RecvText ==
  /\ ContentOpen
  /\ \E d \in Deltas :
       LET r == TextDelta(fullResponse, d) IN
       /\ fullResponse' = r.full
       /\ trace' = trace \o r.emit
  /\ steps' = steps + 1
  /\ seen' = seen \cup {"content"}
  /\ UNCHANGED <<cfgVars, pc, msgs, usageVars, toolVars, finishReason, resp, abortedAt,
                 fault, callVars, roundIn, roundOut, sumIn, sumOut, storeVars>>

Call(id, name, arg) == [id |-> id, name |-> name, arg |-> arg]

\* one complete tool call of the stream. Anthropic: a tool_use block (start, its
\* input_json_delta, stop); OpenAI: a tool_calls delta at a new index; Gemini: a
\* functionCall part. arg is the JSON argument text: a path, or "bad" (no JSON).
ToolCallReceived(a, pend, id, name, arg) ==
  CASE a = "anthropic" ->
         [pending |-> IF name = "load_file" /\ arg \in Paths
                      THEN Append(pend, Call(id, name, arg)) ELSE pend,
          emit |-> IF name = "load_file"
                   THEN << EvFileLoad("Loading file...") >>
                        \o (IF arg \in Paths THEN << EvFileLoad(arg) >> ELSE <<>>)
                   ELSE <<>>]
    [] a = "openai" ->
         [pending |-> Append(pend, Call(id, name, arg)),
          emit |-> IF name = "load_file"
                   THEN << EvFileLoad("Loading file...") >>
                        \o (IF arg \in Paths THEN << EvFileLoad(arg) >> ELSE <<>>)
                   ELSE <<>>]
    [] a = "gemini" ->
         [pending |-> Append(pend, Call(id, name, arg)),
          emit |-> IF name = "load_file" THEN << EvFileLoad(arg) >> ELSE <<>>]

RecvToolCall ==
  /\ ContentOpen
  /\ \E name \in ToolNames, arg \in ToolArgs :
       /\ name = "other" => arg = "p1"
       /\ adapter = "gemini" => arg \in Paths
       /\ LET r == ToolCallReceived(adapter, pending, steps + 1, name, arg) IN
          /\ pending' = r.pending
          /\ trace' = trace \o r.emit
          /\ made' = IF name = "load_file"
                     THEN Append(made, Call(steps + 1, name, arg)) ELSE made
  /\ steps' = steps + 1
  /\ seen' = seen \cup {"content"}
  /\ toolSeen' = TRUE
  /\ UNCHANGED <<cfgVars, pc, msgs, fullResponse, usageVars, toolResults, ti, finishReason,
                 resp, abortedAt, fault, roundIn, roundOut, sumIn, sumOut, storeVars>>

\* how a round's reported count enters the running counter
UsageUpdate(a, current, reported) ==
  CASE a = "anthropic" -> current + reported
    [] a = "openai" -> reported
    [] a = "gemini" -> IF reported # 0 THEN reported ELSE current

\* Anthropic message_start, the first event of a stream:
\* inputTokens += message.usage.input_tokens || 0
AnthropicMessageStart ==
  /\ pc = "stream" /\ adapter = "anthropic"
  /\ seen = {}
  /\ \E n \in TokVals :
       /\ inputTokens' = UsageUpdate(adapter, inputTokens, n)
       /\ roundIn' = n
  /\ seen' = seen \cup {"message_start"}
  /\ UNCHANGED <<cfgVars, pc, trace, msgs, fullResponse, outputTokens, toolVars,
                 finishReason, resp, steps, abortedAt, fault, callVars, roundOut, sumIn,
                 sumOut, storeVars>>

\* Anthropic message_delta, the event that closes a stream:
\* outputTokens += usage.output_tokens || 0; stopReason = delta.stop_reason
AnthropicMessageDelta ==
  /\ pc = "stream" /\ adapter = "anthropic"
  /\ "message_delta" \notin seen
  /\ \E m \in TokVals :
       /\ outputTokens' = UsageUpdate(adapter, outputTokens, m)
       /\ roundOut' = m
  /\ \E sr \in {"end_turn", "tool_use"} : finishReason' = sr
  /\ seen' = seen \cup {"message_delta"}
  /\ UNCHANGED <<cfgVars, pc, trace, msgs, fullResponse, inputTokens, toolVars, resp, steps,
                 abortedAt, fault, callVars, roundIn, sumIn, sumOut, storeVars>>

\* OpenAI chunk with choices[0].finish_reason, after the content
OpenAIFinish ==
  /\ pc = "stream" /\ adapter = "openai"
  /\ seen \cap {"finish", "usage"} = {}
  /\ \E fr \in {"stop", "tool_calls"} : finishReason' = fr
  /\ seen' = seen \cup {"finish"}
  /\ UNCHANGED <<cfgVars, pc, trace, msgs, fullResponse, usageVars, toolVars, resp, steps,
                 abortedAt, fault, callVars, roundIn, roundOut, sumIn, sumOut, storeVars>>

\* OpenAI final chunk with usage (stream_options.include_usage)
OpenAIUsage ==
  /\ pc = "stream" /\ adapter = "openai"
  /\ "usage" \notin seen
  /\ \E i \in TokVals, o \in TokVals :
       /\ inputTokens' = UsageUpdate(adapter, inputTokens, i)
       /\ outputTokens' = UsageUpdate(adapter, outputTokens, o)
       /\ roundIn' = i
       /\ roundOut' = o
  /\ seen' = seen \cup {"usage"}
  /\ UNCHANGED <<cfgVars, pc, trace, msgs, fullResponse, toolVars, finishReason, resp, steps,
                 abortedAt, fault, callVars, sumIn, sumOut, storeVars>>

\* Gemini chunk whose candidate carries finishReason (kept, never read afterwards)
GeminiFinish ==
  /\ pc = "stream" /\ adapter = "gemini"
  /\ "finish" \notin seen
  /\ finishReason' = "STOP"
  /\ seen' = seen \cup {"finish"}
  /\ UNCHANGED <<cfgVars, pc, trace, msgs, fullResponse, usageVars, toolVars, resp, steps,
                 abortedAt, fault, callVars, roundIn, roundOut, sumIn, sumOut, storeVars>>

\* Gemini chunk with usageMetadata, on any chunk: the latest value wins, a count of
\* 0 standing for a chunk that carries none
GeminiUsage ==
  /\ pc = "stream" /\ adapter = "gemini"
  /\ steps < MaxSteps
  /\ \E i \in TokVals, o \in TokVals :
       /\ inputTokens' = UsageUpdate(adapter, inputTokens, i)
       /\ outputTokens' = UsageUpdate(adapter, outputTokens, o)
       /\ roundIn' = IF i # 0 THEN i ELSE roundIn
       /\ roundOut' = IF o # 0 THEN o ELSE roundOut
  /\ steps' = steps + 1
  /\ UNCHANGED <<cfgVars, pc, trace, msgs, fullResponse, toolVars, finishReason, resp,
                 abortedAt, fault, callVars, seen, sumIn, sumOut, storeVars>>

\* ------------------------------------------------------- tool-call cycle
Result(id, kind, path) == [id |-> id, kind |-> kind, path |-> path]

\* a loader check that forgets the '[Error' marker
ToolResultForNoMarkerCheck(call, outcome) ==
  CASE outcome \in {"ok", "errmark"} ->
         [result |-> Result(call.id, "file", call.arg), ok |-> TRUE]
    [] outcome = "none" -> [result |-> Result(call.id, "notfound", call.arg), ok |-> FALSE]
    [] outcome = "throw" -> [result |-> Result(call.id, "exception", call.arg), ok |-> FALSE]

\* the tool result and the onFileLoaded flag for what the loader did:
\*   "file"      `File: ${file.path}\n\n${file.content}`
\*   "notfound"  `Error: Could not load file "${path}". Make sure the path is correct.`
\*   "exception" `Error loading file: ${err.message}`
ToolResultFor(call, outcome) ==
  CASE outcome = "ok" -> [result |-> Result(call.id, "file", call.arg), ok |-> TRUE]
    [] outcome \in {"none", "errmark"} ->
         [result |-> Result(call.id, "notfound", call.arg), ok |-> FALSE]
    [] outcome = "throw" -> [result |-> Result(call.id, "exception", call.arg), ok |-> FALSE]

\* the JSON text of a call's arguments, as the vendor streamed it
RawArguments(arg) == IF arg = "p1" THEN "{\"path\":\"p1\"}" ELSE arg

\* the first argument of onFileLoaded: the parsed path, except in the catch of the
\* OpenAI loop, which passes toolCall.arguments
LoadedPath(a, call, outcome) ==
  IF a = "openai" /\ outcome = "throw" THEN RawArguments(call.arg) ELSE call.arg

\* the condition of the tool branch once the stream has drained
WantsTools(a, reason, pend, loader) ==
  CASE a = "anthropic" -> reason = "tool_use" /\ Len(pend) > 0 /\ loader
    [] a = "openai" -> reason = "tool_calls" /\ Len(pend) > 0 /\ loader
    [] a = "gemini" -> Len(pend) > 0 /\ loader

\* the for loop over the pending calls from index i, run up to its next await:
\* calls that are not load_file are skipped, a load_file call whose arguments do not
\* parse (OpenAI) gets its error result at once, any other load_file call announces
\* onFileLoad(path) and invokes the loader, which suspends the loop.
RECURSIVE RunTools(_, _, _, _, _)
RunTools(a, pend, i, results, tr) ==
  IF i > Len(pend)
  THEN [wait |-> FALSE, ti |-> 0, results |-> results, trace |-> tr]
  ELSE LET c == pend[i] IN
       IF c.name # "load_file"
       THEN RunTools(a, pend, i + 1, results, tr)
       ELSE IF c.arg \notin Paths
       THEN RunTools(a, pend, i + 1,
                     Append(results, Result(c.id, "exception", c.arg)),
                     Append(tr, EvFileLoaded(c.arg, FALSE)))
       ELSE [wait |-> TRUE, ti |-> i, results |-> results,
             trace |-> tr \o << EvFileLoad(c.arg), EvLoader(c.id, c.arg) >>]

\* the assistant-role message recording the round: interim text and the tool calls
AssistantMessage(a, full, pend) ==
  Msg(IF a = "gemini" THEN "model" ELSE "assistant", full, pend, <<>>)

\* every adapter answering with one tool-role message per result
ToolResultMessagesPerResult(a, results) ==
  [i \in 1..Len(results) |-> Msg("tool", <<>>, <<>>, << results[i] >>)]

\* the results fed back last call first
ToolResultMessagesReversed(a, results) ==
  LET rev == [i \in 1..Len(results) |-> results[Len(results) + 1 - i]] IN
  IF a = "openai"
  THEN [i \in 1..Len(rev) |-> Msg("tool", <<>>, <<>>, << rev[i] >>)]
  ELSE << Msg("user", <<>>, <<>>, rev) >>

\* the message(s) that carry the tool results back
ToolResultMessages(a, results) ==
  IF a = "openai"
  THEN [i \in 1..Len(results) |-> Msg("tool", <<>>, <<>>, << results[i] >>)]
  ELSE << Msg("user", <<>>, <<>>, results) >>

\* updatedMessages / updatedContents
UpdatedMessages(a, conv, full, pend, results) ==
  conv \o << AssistantMessage(a, full, pend) >> \o ToolResultMessages(a, results)

\* a continuation that starts its response text afresh
ContinuationArgsFreshText(i, o, full) ==
  [totalInputTokens |-> i, totalOutputTokens |-> o, accumulatedResponse |-> <<>>]

\* the accumulators handed to the recursive makeStreamingRequest
ContinuationArgs(i, o, full) ==
  [totalInputTokens |-> i, totalOutputTokens |-> o, accumulatedResponse |-> full]

\* the recursive call: the next request, which an already aborted signal rejects at once
Continue(results, tr) ==
  LET conv == UpdatedMessages(adapter, msgs, fullResponse, pending, results)
      args == ContinuationArgs(inputTokens, outputTokens, fullResponse)
      c == TopLevelCatch(adapter, AbortError, tr)
  IN
  /\ msgs' = conv
  /\ IF aborted
     THEN pc' = c.pc /\ trace' = c.trace
     ELSE pc' = "fetch" /\ trace' = tr \o RequestEvents(conv)
  /\ fullResponse' = args.accumulatedResponse
  /\ inputTokens' = args.totalInputTokens
  /\ outputTokens' = args.totalOutputTokens
  /\ pending' = <<>>
  /\ toolResults' = <<>>
  /\ ti' = 0
  /\ finishReason' = ""
  /\ seen' = {}
  /\ sumIn' = sumIn + roundIn
  /\ sumOut' = sumOut + roundOut
  /\ roundIn' = 0
  /\ roundOut' = 0

\* run the tool loop from index i; suspend on a loader call or issue the continuation
ResolveFrom(i, results, tr) ==
  LET r == RunTools(adapter, pending, i, results, tr) IN
  IF r.wait
  THEN /\ pc' = "loading"
       /\ ti' = r.ti
       /\ toolResults' = r.results
       /\ trace' = r.trace
       /\ UNCHANGED <<msgs, fullResponse, usageVars, pending, finishReason, vendorVars>>
  ELSE Continue(r.results, r.trace)

\* completion announced before the usage
CompletionEventsCompleteFirst(i, o, full) ==
  << EvComplete(full) >> \o (IF i > 0 \/ o > 0 THEN << EvUsage(i, o) >> ELSE <<>>)

\* usage reported only when both counters are positive
CompletionEventsBothPositive(i, o, full) ==
  (IF i > 0 /\ o > 0 THEN << EvUsage(i, o) >> ELSE <<>>) \o << EvComplete(full) >>

\* completion announced only for a response that has text
CompletionEventsTextOnly(i, o, full) ==
  (IF i > 0 \/ o > 0 THEN << EvUsage(i, o) >> ELSE <<>>)
    \o (IF full # <<>> THEN << EvComplete(full) >> ELSE <<>>)

\* onUsage if any tokens were recorded, then onComplete(fullResponse)
CompletionEvents(i, o, full) ==
  (IF i > 0 \/ o > 0 THEN << EvUsage(i, o) >> ELSE <<>>) \o << EvComplete(full) >>

\* reader.read() reports done and the round asks for tools
StreamDoneTools ==
  /\ pc = "stream"
  /\ steps < MaxSteps
  /\ WantsTools(adapter, finishReason, pending, hasLoader)
  /\ ResolveFrom(1, <<>>, trace)
  /\ steps' = steps + 1
  /\ UNCHANGED <<cfgVars, resp, abortedAt, fault, callVars, storeVars>>

\* reader.read() reports done and the turn is over
StreamDoneComplete ==
  /\ pc = "stream"
  /\ ~WantsTools(adapter, finishReason, pending, hasLoader)
  /\ trace' = trace \o CompletionEvents(inputTokens, outputTokens, fullResponse)
  /\ pc' = "done"
  /\ UNCHANGED <<cfgVars, msgs, fullResponse, usageVars, toolVars, finishReason, resp,
                 steps, abortedAt, fault, callVars, vendorVars, storeVars>>

\* the awaited loadFileContents([path]) settles
LoaderReturn ==
  /\ pc = "loading"
  /\ \E outcome \in LoaderOutcomes :
       LET c == pending[ti]
           r == ToolResultFor(c, outcome)
       IN ResolveFrom(ti + 1, Append(toolResults, r.result),
                      trace \o << EvLoaderReturn(c.id, c.arg, outcome),
                                  EvFileLoaded(LoadedPath(adapter, c, outcome), r.ok) >>)
  /\ UNCHANGED <<cfgVars, resp, steps, abortedAt, fault, callVars, storeVars>>

\* abortSignal fires. A pending fetch or reader.read() rejects with AbortError; a
\* pending response.json() of a non-2xx response rejects too, which its
\* .catch(() => ({})) turns into an empty payload; a pending loader call is not
\* affected.
Abort ==
  /\ pc \in {"fetch", "errbody", "stream", "loading"}
  /\ ~aborted
  /\ abortedAt' = pc
  /\ LET c == CASE pc \in {"fetch", "stream"} -> TopLevelCatch(adapter, AbortError, trace)
                [] pc = "errbody" ->
                     TopLevelCatch(adapter, Err(HttpErrorMessage(resp.status, "")), trace)
                [] pc = "loading" -> [pc |-> pc, trace |-> trace]
     IN pc' = c.pc /\ trace' = c.trace
  /\ UNCHANGED <<cfgVars, msgs, fullResponse, usageVars, toolVars, finishReason, resp,
                 steps, fault, callVars, vendorVars, storeVars>>

Next ==
  \/ SendMessage
  \/ FetchOk
  \/ FetchNoBody
  \/ FetchNetworkError
  \/ FetchStatus
  \/ ErrorBodyRead
  \/ ReadError
  \/ RecvText
  \/ RecvToolCall
  \/ AnthropicMessageStart
  \/ AnthropicMessageDelta
  \/ OpenAIFinish
  \/ OpenAIUsage
  \/ GeminiFinish
  \/ GeminiUsage
  \/ StreamDoneTools
  \/ StreamDoneComplete
  \/ LoaderReturn
  \/ Abort

Spec == Init /\ [][Next]_vars

\* ------------------------------------------------------------ longer turns
\* A turn with a file loader whose requests are answered and whose streams are read
\* to their end, with room for two more vendor events than MaxSteps: enough for two
\* tool rounds and text.
LongTurnInit ==
  /\ adapter \in Adapters
  /\ hasLoader = TRUE
  /\ modelId = getDefaultModelForProvider(adapter).id
  /\ PureIdle
  /\ PageIdle
  /\ TurnFresh
  /\ steps = -2
  /\ storageAvailable = TRUE
  /\ storage = EmptyStorage
  /\ lastCall = NoCall

LongTurnNext ==
  \/ SendMessage
  \/ FetchOk
  \/ RecvText
  \/ RecvToolCall
  \/ AnthropicMessageDelta
  \/ OpenAIFinish
  \/ GeminiFinish
  \/ StreamDoneTools
  \/ StreamDoneComplete
  \/ LoaderReturn

LongTurnSpec == LongTurnInit /\ [][LongTurnNext]_vars

\* ------------------------------------------------------------ turn liveness
\* one call with the provider's default model
LiveInit == Init /\ modelId = getDefaultModelForProvider(adapter).id

\* what the event loop and a responding vendor guarantee: the call runs once it is
\* made, an answered fetch resumes the call, every stream is closed by the vendor
\* and read to its end, and an awaited loader call settles. No fairness for the
\* failures, for the abort, or for further content.
Fairness ==
  /\ WF_vars(SendMessage)
  /\ WF_vars(FetchOk)
  /\ WF_vars(AnthropicMessageDelta)
  /\ WF_vars(OpenAIFinish)
  /\ WF_vars(GeminiFinish)
  /\ WF_vars(StreamDoneTools)
  /\ WF_vars(StreamDoneComplete)
  /\ WF_vars(LoaderReturn)

LiveSpec == LiveInit /\ [][Next]_vars /\ Fairness

\* ============================================== provider preference store
ProviderIds == {"anthropic", "openai", "gemini"}
getAllProviders == << "anthropic", "openai", "gemini" >>
ACTIVE_PROVIDER == "brain_api_provider"
LEGACY_MODEL == "brain_chat_model"
KeyStrings == {"", "sk-1", "sk-2"}
OldModels == {"haiku", "sonnet", "claude-3-opus", "gpt-4o"}

storageKey(p) ==
  CASE p = "anthropic" -> "brain_anthropic_api_key"
    [] p = "openai" -> "brain_openai_api_key"
    [] p = "gemini" -> "brain_gemini_api_key"

modelStorageKey(p) ==
  CASE p = "anthropic" -> "brain_anthropic_model"
    [] p = "openai" -> "brain_openai_model"
    [] p = "gemini" -> "brain_gemini_model"

\* Storage: getItem gives null for an item that is not there
Null == "<null>"
getItem(s, k) == IF k \in DOMAIN s THEN s[k] ELSE Null
\* a setItem that keeps the value of an item that is already there
setItemKeepExisting(s, k, v) ==
  [x \in DOMAIN s \cup {k} |-> IF x \in DOMAIN s THEN s[x] ELSE v]
setItem(s, k, v) == [x \in DOMAIN s \cup {k} |-> IF x = k THEN v ELSE s[x]]
removeItem(s, k) == [x \in DOMAIN s \ {k} |-> s[x]]
\* JavaScript truthiness of a string | null
Truthy(v) == v # Null /\ v # ""

getApiKey(avail, s, p) == IF ~avail THEN Null ELSE getItem(s, storageKey(p))
hasApiKey(avail, s, p) == Truthy(getApiKey(avail, s, p))

\* the saved provider returned without looking for its key
getActiveProviderTrustSaved(avail, s) ==
  IF ~avail THEN "anthropic"
  ELSE IF getItem(s, ACTIVE_PROVIDER) \in ProviderIds THEN getItem(s, ACTIVE_PROVIDER)
  ELSE "anthropic"

getActiveProvider(avail, s) ==
  IF ~avail THEN "anthropic"
  ELSE LET saved == getItem(s, ACTIVE_PROVIDER)
           withKey == {i \in 1..Len(getAllProviders) :
                         Truthy(getItem(s, storageKey(getAllProviders[i])))}
       IN
       IF saved \in ProviderIds /\ Truthy(getItem(s, storageKey(saved)))
       THEN saved
       ELSE IF withKey # {}
       THEN getAllProviders[CHOOSE i \in withKey : \A j \in withKey : i <= j]
       ELSE "anthropic"

\* modelMap of runMigration; Null for an id it does not list
modelMap(m) ==
  CASE m = "haiku" -> "claude-haiku-4-5-20251001"
    [] m = "sonnet" -> "claude-sonnet-4-5-20250929"
    [] m = "claude-3-5-haiku-20241022" -> "claude-haiku-4-5-20251001"
    [] m = "claude-sonnet-4-20250514" -> "claude-sonnet-4-5-20250929"
    [] OTHER -> Null

\* newModel.includes('claude'), over the model ids of this model
IncludesClaude(m) ==
  m \in {"claude-haiku-4-5-20251001", "claude-sonnet-4-5-20250929", "claude-3-opus",
         "claude-3-5-haiku-20241022", "claude-sonnet-4-20250514"}

\* the storage runMigration leaves
Migrated(s) ==
  IF Truthy(getItem(s, ACTIVE_PROVIDER)) THEN s
  ELSE LET s1 == IF Truthy(getItem(s, storageKey("anthropic")))
                 THEN setItem(s, ACTIVE_PROVIDER, "anthropic") ELSE s
           oldModel == getItem(s1, LEGACY_MODEL)
           newModel == IF Truthy(modelMap(oldModel)) THEN modelMap(oldModel) ELSE oldModel
       IN
       IF Truthy(oldModel) /\ (IncludesClaude(newModel) \/ Truthy(modelMap(oldModel)))
       THEN setItem(s1, modelStorageKey("anthropic"), newModel)
       ELSE s1

\* setSelectedModel(provider, modelId)
setSelectedModel(avail, s, p, id) ==
  IF ~avail THEN s ELSE setItem(s, modelStorageKey(p), id)

\* a browser profile before the first visit of this version: maybe a key and a model
\* selection of the single-provider version
StoreInit ==
  /\ adapter = "anthropic"
  /\ hasLoader = FALSE
  /\ modelId = getDefaultModelForProvider(adapter).id
  /\ PureIdle
  /\ PageIdle
  /\ TurnIdle
  /\ storageAvailable \in BOOLEAN
  /\ \E key \in {Null, "sk-1"}, old \in OldModels \cup {Null} :
       storage = [k \in (IF key = Null THEN {} ELSE {storageKey("anthropic")})
                          \cup (IF old = Null THEN {} ELSE {LEGACY_MODEL})
                    |-> IF k = LEGACY_MODEL THEN old ELSE key]
  /\ lastCall = NoCall

\* the record of a store operation, taken before it acts
Called(op, p, key) ==
  [op |-> op, provider |-> p, key |-> key,
   before |-> getActiveProvider(storageAvailable, storage)]

SetApiKey ==
  /\ \E p \in ProviderIds, key \in KeyStrings :
       /\ storage' = IF storageAvailable THEN setItem(storage, storageKey(p), key) ELSE storage
       /\ lastCall' = Called("setApiKey", p, key)
  /\ UNCHANGED <<turnVars, storageAvailable>>

ClearApiKey ==
  /\ \E p \in ProviderIds :
       /\ storage' = IF storageAvailable THEN removeItem(storage, storageKey(p)) ELSE storage
       /\ lastCall' = Called("clearApiKey", p, "")
  /\ UNCHANGED <<turnVars, storageAvailable>>

SetActiveProvider ==
  /\ \E p \in ProviderIds :
       /\ storage' = IF storageAvailable THEN setItem(storage, ACTIVE_PROVIDER, p) ELSE storage
       /\ lastCall' = Called("setActiveProvider", p, "")
  /\ UNCHANGED <<turnVars, storageAvailable>>

RunMigration ==
  /\ storage' = IF storageAvailable THEN Migrated(storage) ELSE storage
  /\ lastCall' = Called("runMigration", "anthropic", "")
  /\ UNCHANGED <<turnVars, storageAvailable>>

StoreNext ==
  \/ SetApiKey
  \/ ClearApiKey
  \/ SetActiveProvider
  \/ RunMigration

StoreSpec == StoreInit /\ [][StoreNext]_vars

\* ======================================================= the orchestrator
\* a stored selection returned without verifying that it is a model of the provider
getSelectedModelUnverified(avail, s, p) ==
  IF ~avail THEN getDefaultModelForProvider(p).id
  ELSE IF Truthy(getItem(s, modelStorageKey(p))) THEN getItem(s, modelStorageKey(p))
  ELSE getDefaultModelForProvider(p).id

getSelectedModel(avail, s, p) ==
  IF ~avail THEN getDefaultModelForProvider(p).id
  ELSE LET saved == getItem(s, modelStorageKey(p))
           models == getModelsForProvider(p)
       IN IF Truthy(saved) /\ \E k \in 1..Len(models) : models[k].id = saved
          THEN saved
          ELSE getDefaultModelForProvider(p).id

\* PROVIDERS[p].supportsWebSearch and PROVIDERS[p].supportsCodeExecution
supportsWebSearch(p) == p \in {"anthropic", "openai", "gemini"}
supportsCodeExecution(p) == p \in {"anthropic", "openai", "gemini"}

\* a gate that lets the provider's capability stand in for the caller's toggle
GatedToggleIgnoringToggle(toggle, supported) == supported

\* options.enableX && providerConfig.supportsX
GatedToggle(toggle, supported) == toggle /\ supported

\* the tools array the adapter of provider p puts into its request
RequestedTools(p, enableWebSearch, enableCodeExecution, loader) ==
  (IF loader THEN {"load_file"} ELSE {})
    \cup (IF p = "anthropic" /\ enableWebSearch THEN {"web_search"} ELSE {})
    \cup (IF p = "anthropic" /\ enableCodeExecution THEN {"code_execution"} ELSE {})

\* sendMessage of brain-chat: the options it hands to the adapter of the active
\* provider, and the tools that adapter then requests
ForwardedOptions(avail, s, explicitModelId, webSearch, codeExecution) ==
  LET provider == getActiveProvider(avail, s)
      actualModelId == IF Truthy(explicitModelId) THEN explicitModelId
                       ELSE getSelectedModel(avail, s, provider)
      enableWebSearch == GatedToggle(webSearch, supportsWebSearch(provider))
      enableCodeExecution == GatedToggle(codeExecution, supportsCodeExecution(provider))
  IN [provider |-> provider, modelId |-> actualModelId,
      enableWebSearch |-> enableWebSearch, enableCodeExecution |-> enableCodeExecution,
      loadFileContents |-> TRUE,
      tools |-> RequestedTools(provider, enableWebSearch, enableCodeExecution, TRUE)]

\* buildSystemPrompt: the capabilities its tools section names, in order
enabledTools(toolOptions) ==
  (IF toolOptions.enableWebSearch THEN <<"Web Search">> ELSE <<>>)
  \o (IF toolOptions.enableWebFetch THEN <<"URL Fetch">> ELSE <<>>)
  \o (IF toolOptions.enableCodeExecution THEN <<"Code Execution">> ELSE <<>>)

\* the tool options handleSendMessage computes from the toggles of the page, for the
\* prompt and for sendMessage alike
PageToolOptions(p, webSearchEnabled, webFetchEnabled, codeExecutionEnabled) ==
  [enableWebSearch |-> webSearchEnabled /\ supportsWebSearch(p),
   enableWebFetch |-> webFetchEnabled,
   enableCodeExecution |-> codeExecutionEnabled /\ supportsCodeExecution(p)]

\* handleSendMessage from the prompt to the request: what the tools section names
\* and the tools the request of the active provider's adapter carries
PromptAndRequest(avail, s, webSearchEnabled, webFetchEnabled, codeExecutionEnabled) ==
  LET opts == PageToolOptions(getActiveProvider(avail, s), webSearchEnabled,
                              webFetchEnabled, codeExecutionEnabled)
      forwarded == ForwardedOptions(avail, s, "", opts.enableWebSearch,
                                    opts.enableCodeExecution)
  IN [provider |-> forwarded.provider, named |-> enabledTools(opts),
      tools |-> forwarded.tools]

\* ------------------------------------------------- inputs of the orchestrator
Put(s, k, v) == IF v = Null THEN s ELSE setItem(s, k, v)
ModelChoices == {"claude-sonnet-4-5-20250929", "gpt-5-mini"}
\* what the store operations can have left in localStorage
StorageContents ==
  { Put(Put(Put(Put(Put(Put(EmptyStorage,
        storageKey("anthropic"), ka), storageKey("openai"), ko), storageKey("gemini"), kg),
        ACTIVE_PROVIDER, act), modelStorageKey("anthropic"), ma),
        modelStorageKey("openai"), mo) :
      ka \in {Null, "sk-1"}, ko \in {Null, "sk-1"}, kg \in {Null, "sk-1"},
      act \in ProviderIds \cup {Null},
      ma \in ModelChoices \cup {Null}, mo \in ModelChoices \cup {Null} }
ExplicitModelIds == {Null, "", "gemini-3-pro-preview"}

\* ================================================== file auto-discovery
\* A string is a sequence of fragments whose concatenation is the string; the
\* fragments are cut so that every phrase, folder path and date the code looks for is
\* a run of whole fragments.
IsPrefix(pre, str) == Len(pre) <= Len(str) /\ SubSeq(str, 1, Len(pre)) = pre
EndsWith(str, suf) ==
  Len(suf) <= Len(str) /\ SubSeq(str, Len(str) - Len(suf) + 1, Len(str)) = suf
\* String.prototype.includes
Includes(str, sub) ==
  \E k \in 0..(Len(str) - Len(sub)) : SubSeq(str, k + 1, k + Len(sub)) = sub

LowerOf(frag) ==
  CASE frag = "Ethan" -> "ethan"
    [] frag = "What's new from " -> "what's new from "
    [] frag = "Research" -> "research"
    [] OTHER -> frag
toLowerCase(str) == [k \in 1..Len(str) |-> LowerOf(str[k])]

\* the entries of knownSources this model keeps, in the order of the object literal
knownSources ==
  << [phrase |-> <<"ethan">>, path |-> <<"research", "/", "newsletters", "/", "ethan">>],
     [phrase |-> <<"ethan", " ", "mollick">>,
      path |-> <<"research", "/", "newsletters", "/", "ethan">>],
     [phrase |-> <<"simon">>, path |-> <<"research", "/", "newsletters", "/", "simon">>],
     [phrase |-> <<"newsletter">>, path |-> <<"research", "/", "newsletters">>] >>

\* [...new Set(xs)]: the first occurrence of every element, in order
RECURSIVE Dedupe(_)
Dedupe(xs) ==
  IF xs = <<>> THEN <<>>
  ELSE LET front == Dedupe(SubSeq(xs, 1, Len(xs) - 1))
           x == xs[Len(xs)]
       IN IF \E k \in 1..Len(front) : front[k] = x THEN front ELSE Append(front, x)

extractKeywords(query) ==
  LET queryLower == toLowerCase(query)
      hit == SelectSeq(knownSources, LAMBDA src : Includes(queryLower, src.phrase))
  IN Dedupe([k \in 1..Len(hit) |-> hit[k].path])

\* parseInt of the first run of eight digits of the path, 0 when there is none
DateFragments == {"20240101", "20250101", "20250203"}
ParseInt(frag) ==
  CASE frag = "20240101" -> 20240101
    [] frag = "20250101" -> 20250101
    [] frag = "20250203" -> 20250203
extractDateFromPath(path) ==
  LET at == {k \in 1..Len(path) : path[k] \in DateFragments} IN
  IF at = {} THEN 0 ELSE ParseInt(path[CHOOSE k \in at : \A j \in at : k <= j])

FileNode(path, type, children) == [path |-> path, type |-> type, children |-> children]
\* node.name, the last segment of the path
NameOf(path) ==
  LET slashes == {k \in 1..Len(path) : path[k] = "/"} IN
  IF slashes = {} THEN path
  ELSE SubSeq(path, (CHOOSE k \in slashes : \A j \in slashes : j <= k) + 1, Len(path))

\* folderPaths.some-like loop: the node lies in a target folder when its lower-cased
\* path starts with the folder path
InTargetFolder(node, folderPaths) ==
  \E k \in 1..Len(folderPaths) :
    IsPrefix(toLowerCase(folderPaths[k]), toLowerCase(node.path))

RECURSIVE searchTreeForKeywords(_, _, _)
searchTreeForKeywords(nodes, folderPaths, matches) ==
  IF nodes = <<>> THEN matches
  ELSE LET node == Head(nodes)
           own == IF InTargetFolder(node, folderPaths) /\ node.type = "file"
                       /\ EndsWith(NameOf(node.path), <<".md">>)
                  THEN Append(matches, node.path) ELSE matches
           deep == IF node.type = "dir"
                   THEN searchTreeForKeywords(node.children, folderPaths, own) ELSE own
       IN searchTreeForKeywords(Tail(nodes), folderPaths, deep)

\* a comparator that puts the newer file first whatever the query asks for
BeforeDateFirst(a, b, wantsRecent) ==
  IF b.date # a.date THEN b.date < a.date ELSE b.score < a.score

\* the two comparators of findRelevantFiles: compare(a, b) < 0
Before(a, b, wantsRecent) ==
  IF wantsRecent
  THEN IF b.date # a.date THEN b.date < a.date ELSE b.score < a.score
  ELSE IF b.score # a.score THEN b.score < a.score ELSE b.date < a.date

\* Array.prototype.sort with that comparator: a stable sort
RECURSIVE InsertSorted(_, _, _)
InsertSorted(sorted, x, wantsRecent) ==
  IF sorted = <<>> THEN << x >>
  ELSE IF Before(x, Head(sorted), wantsRecent) THEN << x >> \o sorted
  ELSE << Head(sorted) >> \o InsertSorted(Tail(sorted), x, wantsRecent)
RECURSIVE SortBy(_, _)
SortBy(xs, wantsRecent) ==
  IF xs = <<>> THEN <<>>
  ELSE InsertSorted(SortBy(SubSeq(xs, 1, Len(xs) - 1), wantsRecent), xs[Len(xs)],
                    wantsRecent)

RecencyWords == { <<"recent">>, <<"latest">>, <<"newest">>, <<"last">> }

findRelevantFiles(query, tree, maxFiles) ==
  LET keywords == extractKeywords(query)
      matches == searchTreeForKeywords(tree, keywords, <<>>)
      queryLower == toLowerCase(query)
      wantsRecent == \E w \in RecencyWords : Includes(queryLower, w)
      Score(path) ==
        Cardinality({k \in 1..Len(keywords) : Includes(toLowerCase(path), keywords[k])})
      scored == [k \in 1..Len(matches) |->
                   [path |-> matches[k], score |-> Score(matches[k]),
                    date |-> extractDateFromPath(matches[k])]]
      sorted == SortBy(scored, wantsRecent)
      top == SubSeq(sorted, 1, IF maxFiles < Len(sorted) THEN maxFiles ELSE Len(sorted))
  IN IF Len(keywords) = 0 THEN <<>> ELSE [k \in 1..Len(top) |-> top[k].path]

\* ------------------------------------------------ inputs of auto-discovery
EthanFolder == <<"research", "/", "newsletters", "/", "ethan">>
Queries ==
  { <<"What's new from ", "Ethan", " ", "recent", "ly?">>,
    <<"latest", " from ", "ethan", " ", "mollick">>,
    <<"tell me about ", "ethan">>,
    <<"newsletter", " from ", "ethan">>,
    <<"latest", " ", "newsletter", " from ", "ethan">>,
    <<"hello">> }
FilePaths ==
  { EthanFolder \o <<"/", "20250101", "-a", ".md">>,
    EthanFolder \o <<"/", "20250203", "-b", ".md">>,
    EthanFolder \o <<"/", "notes", ".md">>,
    EthanFolder \o <<"/", "20250203", "-c", ".txt">>,
    EthanFolder \o <<"-archive", "/", "20240101", "-old", ".md">>,
    <<"Research", "/", "newsletters", "/", "simon", "/", "20250203", "-s", ".md">> }
MaxTreeFiles == 3
MaxFilesArgs == {0, 1, 2, 5}
\* the files of a tree in listing order
FileLists ==
  {fs \in UNION {[1..n -> FilePaths] : n \in 0..MaxTreeFiles} :
     \A i \in 1..Len(fs), j \in 1..Len(fs) : i # j => fs[i] # fs[j]}
\* a flat tree, or the same files inside one directory
Trees ==
  {[k \in 1..Len(fs) |-> FileNode(fs[k], "file", <<>>)] : fs \in FileLists}
    \cup {<< FileNode(<<"research">>, "dir",
                       [k \in 1..Len(fs) |-> FileNode(fs[k], "file", <<>>)]) >> :
            fs \in FileLists}

\* ========================================================== key validation
\* what the vendor's endpoint does with the validation request
ValidateResponses ==
  { [kind |-> "network", status |-> 0, msg |-> "Failed to fetch"] }
    \cup { [kind |-> "http", status |-> st, msg |-> m] :
             st \in {200, 204, 400, 401, 403, 500}, m \in {"", "quota exceeded"} }

IsOk(status) == status >= 200 /\ status <= 299
StatusText(status) ==
  CASE status = 400 -> "API error: 400"
    [] status = 401 -> "API error: 401"
    [] status = 403 -> "API error: 403"
    [] OTHER -> "API error: 500"
Valid == [valid |-> TRUE, error |-> ""]
Invalid(msg) == [valid |-> FALSE, error |-> msg]

\* validateKey of adapter a, given the outcome of its one request
validateKey(a, r) ==
  IF r.kind = "network" THEN Invalid(r.msg)
  ELSE IF IsOk(r.status) THEN Valid
  ELSE IF a = "anthropic" /\ r.status = 401 THEN Invalid("Invalid API key")
  ELSE IF a = "anthropic" /\ r.status = 403
  THEN Invalid("API key lacks required permissions")
  ELSE IF a = "openai" /\ r.status = 401 THEN Invalid("Invalid API key")
  ELSE IF a = "gemini" /\ r.status \in {400, 403} THEN Invalid("Invalid API key")
  ELSE Invalid(IF r.msg # "" THEN r.msg ELSE StatusText(r.status))

\* ======================================================= file retrieval
\* POST /api/inbox/files for one path, and what the clients of loadFileContents make
\* of the entry. fetched is what GitHub did with the request for the file.
FileTexts == { <<"# notes">>, <<"[Error", " codes of the API]">> }
Fetched ==
  {[kind |-> "content", text |-> t, large |-> l] : t \in FileTexts, l \in BOOLEAN}
    \cup {[kind |-> "status", text |-> <<"404">>, large |-> FALSE],
          [kind |-> "exception", text |-> <<"fetch failed">>, large |-> FALSE]}

\* the entry of the response for the path
FileEntry(path, fetched) ==
  IF fetched.kind = "status"
  THEN [path |-> path, content |-> <<"[Error", " loading file: ">> \o fetched.text \o <<"]">>,
        error |-> TRUE]
  ELSE IF fetched.kind = "exception"
  THEN [path |-> path, content |-> <<"[Error", ": ">> \o fetched.text \o <<"]">>,
        error |-> TRUE]
  ELSE IF fetched.large
  THEN [path |-> path, content |-> <<"[File too large: ", "101", "KB, max ", "100", "KB]">>,
        error |-> TRUE]
  ELSE [path |-> path, content |-> fetched.text, error |-> FALSE]

\* loadFileContents([path]) when the endpoint answers: path and content of each entry
loadFileContents(path, fetched) ==
  LET entry == FileEntry(path, fetched) IN
  << [path |-> entry.path, content |-> entry.content] >>

\* !file.content.startsWith('[Error')
NotErrorMarked(file) == ~IsPrefix(<<"[Error">>, file.content)

\* what the tool loop of an adapter and handleLoadFiles of the page do with the file
\* a load of the path returns
FileUse(path, fetched) ==
  LET files == loadFileContents(path, fetched)
      file == files[1]
  IN [failed |-> FileEntry(path, fetched).error,
      onFileLoaded |-> [path |-> path, success |-> NotErrorMarked(file)],
      toolResult |-> IF NotErrorMarked(file)
                     THEN <<"File: ">> \o file.path \o <<"\n\n">> \o file.content
                     ELSE <<"Error: Could not load file \"">> \o path
                            \o <<"\". Make sure the path is correct.">>,
      validFiles |-> SelectSeq(files, NotErrorMarked)]

\* ===================================================== reading the stream
\* The read loop of every makeStreamingRequest. The body of a response is a sequence
\* of fragments, "\n" the line feed and "da" "ta: " the two halves of the prefix of a
\* data line; the network delivers it cut into chunks at any fragment boundary.
MaxStreamLen == 6
StreamFragments == {"da", "ta: ", "\n"}
Bodies == UNION {[1..n -> StreamFragments] : n \in 0..MaxStreamLen}
\* the chunks of a body cut after the positions in cuts
RECURSIVE Chunks(_, _)
Chunks(body, cuts) ==
  IF cuts = {} THEN << body >>
  ELSE LET c == CHOOSE x \in cuts : \A y \in cuts : y <= x IN
       Chunks(SubSeq(body, 1, c), cuts \ {c}) \o << SubSeq(body, c + 1, Len(body)) >>

\* buffer.split('\n')
RECURSIVE SplitLines(_)
SplitLines(s) ==
  LET at == {i \in 1..Len(s) : s[i] = "\n"} IN
  IF at = {} THEN << s >>
  ELSE LET i == CHOOSE x \in at : \A y \in at : x <= y IN
       << SubSeq(s, 1, i - 1) >> \o SplitLines(SubSeq(s, i + 1, Len(s)))

\* for (const line of lines) if (line.startsWith('data: ')): the data of the lines
\* handed to the event handling, in order
DataEvents(lines) ==
  LET dataLines == SelectSeq(lines, LAMBDA line : IsPrefix(<<"da", "ta: ">>, line)) IN
  [k \in 1..Len(dataLines) |-> SubSeq(dataLines[k], 3, Len(dataLines[k]))]

\* a read loop that forgets the unfinished line at the end of a chunk
ReadChunkNoCarry(st, chunk) ==
  LET lines == SplitLines(st.buffer \o chunk) IN
  [buffer |-> <<>>, events |-> st.events \o DataEvents(SubSeq(lines, 1, Len(lines) - 1))]

\* one iteration of the read loop: buffer += chunk; lines = buffer.split('\n');
\* buffer = lines.pop() || ''; then the loop over lines
ReadChunk(st, chunk) ==
  LET lines == SplitLines(st.buffer \o chunk) IN
  [buffer |-> lines[Len(lines)],
   events |-> st.events \o DataEvents(SubSeq(lines, 1, Len(lines) - 1))]

\* the loop until reader.read() reports done
RECURSIVE ReadStream(_, _)
ReadStream(st, chunks) ==
  IF chunks = <<>> THEN st.events
  ELSE ReadStream(ReadChunk(st, Head(chunks)), Tail(chunks))

\* ================================================= library functions applied
\* One library function is applied at a time, to arguments drawn from the input sets.
TokenCounts == {0, 1, 1000, Million}
SearchCounts == {0, 1, 3}

nonPureVars == <<pageVars, adapter, hasLoader, modelId, pc, trace, msgs, fullResponse, usageVars,
                 toolVars, finishReason, resp, steps, abortedAt, fault, callVars,
                 vendorVars, storeVars>>

PureInit ==
  /\ adapter = "anthropic"
  /\ hasLoader = FALSE
  /\ modelId = getDefaultModelForProvider(adapter).id
  /\ PureIdle
  /\ PageIdle
  /\ TurnIdle
  /\ storageAvailable = TRUE
  /\ storage = EmptyStorage
  /\ lastCall = NoCall

CalculateCost ==
  /\ fn = NoFn
  /\ \E i \in TokenCounts, o \in TokenCounts, id \in CatalogIds \cup UnknownIds,
        w \in SearchCounts :
       /\ fn' = [name |-> "calculateCost", inputTokens |-> i, outputTokens |-> o,
                 modelId |-> id, webSearches |-> w]
       /\ ret' = calculateCost(i, o, id, w)
  /\ UNCHANGED nonPureVars

FindRelevantFiles ==
  /\ fn = NoFn
  /\ \E query \in Queries, tree \in Trees, maxFiles \in MaxFilesArgs :
       /\ fn' = [name |-> "findRelevantFiles", query |-> query, tree |-> tree,
                 maxFiles |-> maxFiles]
       /\ ret' = findRelevantFiles(query, tree, maxFiles)
  /\ UNCHANGED nonPureVars

OrchestratorSendMessage ==
  /\ fn = NoFn
  /\ \E avail \in BOOLEAN, s \in StorageContents, explicit \in ExplicitModelIds,
        webSearch \in BOOLEAN, codeExecution \in BOOLEAN :
       /\ fn' = [name |-> "sendMessage", storageAvailable |-> avail, storage |-> s,
                 modelId |-> explicit, enableWebSearch |-> webSearch,
                 enableCodeExecution |-> codeExecution]
       /\ ret' = ForwardedOptions(avail, s, explicit, webSearch, codeExecution)
  /\ UNCHANGED nonPureVars

ValidateKey ==
  /\ fn = NoFn
  /\ \E a \in Adapters, r \in ValidateResponses :
       /\ fn' = [name |-> "validateKey", adapter |-> a, response |-> r]
       /\ ret' = validateKey(a, r)
  /\ UNCHANGED nonPureVars

\* handleSendMessage builds the prompt and sends the request
BuildPromptAndSend ==
  /\ fn = NoFn
  /\ \E s \in StorageContents, webSearch \in BOOLEAN, webFetch \in BOOLEAN,
        codeExecution \in BOOLEAN :
       /\ fn' = [name |-> "handleSendMessage", storage |-> s, webSearchEnabled |-> webSearch,
                 webFetchEnabled |-> webFetch, codeExecutionEnabled |-> codeExecution]
       /\ ret' = PromptAndRequest(TRUE, s, webSearch, webFetch, codeExecution)
  /\ UNCHANGED nonPureVars

\* a load_file call or a click in the file browser loads one file
LoadOneFile ==
  /\ fn = NoFn
  /\ \E path \in FilePaths, fetched \in Fetched :
       /\ fn' = [name |-> "loadFileContents", path |-> path, fetched |-> fetched]
       /\ ret' = FileUse(path, fetched)
  /\ UNCHANGED nonPureVars

\* one response body is read to its end
ReadBody ==
  /\ fn = NoFn
  /\ \E body \in Bodies : \E cuts \in SUBSET (1..(Len(body) - 1)) :
       /\ fn' = [name |-> "readStream", body |-> body, chunks |-> Chunks(body, cuts)]
       /\ ret' = ReadStream([buffer |-> <<>>, events |-> <<>>], fn'.chunks)
  /\ UNCHANGED nonPureVars

\* the caller is done with the result
Return ==
  /\ fn # NoFn
  /\ fn' = NoFn
  /\ ret' = 0
  /\ UNCHANGED nonPureVars

PureNext ==
  \/ CalculateCost
  \/ FindRelevantFiles
  \/ OrchestratorSendMessage
  \/ ValidateKey
  \/ BuildPromptAndSend
  \/ LoadOneFile
  \/ ReadBody
  \/ Return

PureSpec == PureInit /\ [][PureNext]_vars

\* ============================================================ the chat page
\* src/app/i/chat/page.tsx: what the user and the pending promises do to the state of
\* the component. A handler reads the state of the latest render; the part of a handler
\* after an await still sees the state of the render it was created in.
MaxSends == 2

ClaudeMd == <<"CLAUDE", ".md">>
DEFAULT_FILES == << ClaudeMd >>
EthanFile == EthanFolder \o <<"/", "20250203", "-b", ".md">>
\* the file tree the page fetched
fileTree ==
  << FileNode(ClaudeMd, "file", <<>>),
     FileNode(<<"research">>, "dir", << FileNode(EthanFile, "file", <<>>) >>) >>
\* what the user types, and the files the user clicks in the browser
PageInputs == { <<" ">>, <<"latest", " ", "ethan">> }
ClickedPaths == {ClaudeMd}
PageDeltas == { <<"a">> }
\* how a turn fails: the stream breaks, or the vendor answers with status 401 and a
\* payload with or without a message
PageFailures ==
  { [kind |-> "read", status |-> 0, msg |-> ""],
    [kind |-> "http", status |-> 401, msg |-> ""],
    [kind |-> "http", status |-> 401, msg |-> "invalid x-api-key"] }
NoFailure == [kind |-> "none", status |-> 0, msg |-> ""]

\* String.prototype.trim on fragments: blanks at both ends go
RECURSIVE Trim(_)
Trim(str) ==
  IF str = <<>> THEN <<>>
  ELSE IF Head(str) = " " THEN Trim(Tail(str))
  ELSE IF str[Len(str)] = " " THEN Trim(SubSeq(str, 1, Len(str) - 1))
  ELSE str

PathsOf(files) == {files[k] : k \in 1..Len(files)}

\* files.filter(f => !f.content.startsWith('[Error')) of the response to a request
\* for paths, good being the paths whose content the server could read
RECURSIVE ValidFiles(_, _)
ValidFiles(paths, good) ==
  IF paths = <<>> THEN <<>>
  ELSE (IF Head(paths) \in good THEN << Head(paths) >> ELSE <<>>)
         \o ValidFiles(Tail(paths), good)

\* a functional update that appends what was loaded without looking at prev
AddFilesUnfiltered(prev, validFiles) == prev \o validFiles

\* the functional update of handleLoadFiles
AddFiles(prev, validFiles) ==
  prev \o SelectSeq(validFiles, LAMBDA f : f \notin PathsOf(prev))

ChatMessage(role, content) == [role |-> role, content |-> content]

\* one handleSendMessage invocation: where it stands, while it awaits the auto-load
\* the loadedFiles of its render and the paths it loads, and (ghost) the text onToken
\* delivered, how it ended and whether the chat was reset since it was issued
Send(phase, files, newPaths) ==
  [phase |-> phase, loadedFiles |-> files, newPaths |-> newPaths, streamed |-> <<>>,
   end |-> "none", failure |-> NoFailure, previous |-> FALSE]
Started(s) ==
  [Send("turn", <<>>, <<>>) EXCEPT !.streamed = s.streamed, !.previous = s.previous]
Ended(end, failure) == [Send("ended", <<>>, <<>>) EXCEPT !.end = end, !.failure = failure]

ActiveProvider == getActiveProvider(storageAvailable, storage)

\* the message onError receives for a failure of the turn
FailureError(f) ==
  CASE f.kind = "read" -> Err("network error")
    [] f.kind = "http" -> Err(HttpErrorMessage(f.status, f.msg))
ReportedMessage(p, f) == TopLevelCatch(p, FailureError(f), <<>>).trace[1].msg

\* error.includes("401") || error.includes("Invalid API key")
IsAuthError(error) == error = "API error: 401" \/ error = "Invalid API key"

\* what the handlers of a send and of the file browser leave alone, the provider and
\* model selection of the page included
nonPageVars == <<adapter, hasLoader, modelId, pureVars, pc, trace, msgs, fullResponse,
                 usageVars, toolVars, finishReason, resp, steps, abortedAt, fault,
                 callVars, vendorVars, storageAvailable, lastCall, activeProvider,
                 selectedModelId>>

\* the page is mounted with a GitHub connection and a stored key: the tree is
\* fetched and loadDefaultFiles awaits its response
PageInit ==
  /\ adapter = "anthropic"
  /\ hasLoader = FALSE
  /\ modelId = getDefaultModelForProvider(adapter).id
  /\ PureIdle
  /\ TurnIdle
  /\ storageAvailable = TRUE
  /\ storage = setItem(EmptyStorage, storageKey("anthropic"), "sk-1")
  /\ lastCall = NoCall
  /\ input = <<>>
  /\ isStreaming = FALSE
  /\ messages = <<>>
  /\ streamingContent = <<>>
  /\ loadedFiles = <<>>
  /\ showApiKeyModal = FALSE
  /\ sends = <<>>
  /\ loads = << [kind |-> "default", paths |-> DEFAULT_FILES] >>
  /\ activeProvider = ActiveProvider
  /\ selectedModelId = getSelectedModel(storageAvailable, storage, ActiveProvider)

\* onChange of the textarea, which is disabled while isStreaming
TypeInput ==
  /\ ~isStreaming
  /\ \E text \in PageInputs : input' = text
  /\ input' # input
  /\ UNCHANGED <<isStreaming, messages, streamingContent, loadedFiles, showApiKeyModal,
                 sends, loads, storage, nonPageVars>>

\* sendMessage(...) up to its first await: the adapter calls onStart at once
OnStart(k, s) ==
  /\ isStreaming' = TRUE
  /\ streamingContent' = <<>>
  /\ sends' = [s EXCEPT ![k] = Started(s[k])]

\* handleSendMessage up to its first await (Enter, or the send button)
HandleSendMessage ==
  LET content == Trim(input) IN
  /\ Len(sends) < MaxSends
  /\ content # <<>> /\ ~isStreaming
  /\ IF ~Truthy(getApiKey(storageAvailable, storage, ActiveProvider))
     THEN /\ showApiKeyModal' = TRUE
          /\ UNCHANGED <<input, isStreaming, messages, streamingContent, loadedFiles, sends>>
     ELSE LET relevantPaths == findRelevantFiles(content, fileTree, 3)
              newPaths == SelectSeq(relevantPaths, LAMBDA p : p \notin PathsOf(loadedFiles))
              k == Len(sends) + 1
          IN
          /\ messages' = Append(messages, ChatMessage("user", content))
          /\ input' = <<>>
          /\ IF newPaths # <<>>
             THEN /\ sends' = Append(sends, Send("autoload", loadedFiles, newPaths))
                  /\ streamingContent' = <<>>
                  /\ UNCHANGED isStreaming
             ELSE OnStart(k, Append(sends, Send("autoload", loadedFiles, newPaths)))
          /\ UNCHANGED <<loadedFiles, showApiKeyModal>>
  /\ UNCHANGED <<loads, storage, nonPageVars>>

\* the awaited loadFileContents(newPaths) of a send settles; the handler goes on
\* with the loadedFiles of its own render and calls sendMessage
AutoLoadReturn ==
  \E k \in 1..Len(sends) :
    /\ sends[k].phase = "autoload"
    /\ \E good \in SUBSET PathsOf(sends[k].newPaths) :
         LET validFiles == ValidFiles(sends[k].newPaths, good) IN
         loadedFiles' = IF Len(validFiles) > 0
                        THEN sends[k].loadedFiles \o validFiles ELSE loadedFiles
    /\ OnStart(k, sends)
    /\ UNCHANGED <<input, messages, showApiKeyModal, loads, storage, nonPageVars>>

\* callbacks.onToken
OnToken ==
  \E k \in 1..Len(sends), token \in PageDeltas :
    /\ sends[k].phase = "turn"
    /\ sends[k].streamed = <<>>
    /\ streamingContent' = streamingContent \o token
    /\ sends' = [sends EXCEPT ![k].streamed = @ \o token]
    /\ UNCHANGED <<input, isStreaming, messages, loadedFiles, showApiKeyModal, loads,
                   storage, nonPageVars>>

\* callbacks.onComplete(fullResponse), fullResponse being the text streamed
OnComplete ==
  \E k \in 1..Len(sends) :
    /\ sends[k].phase = "turn"
    /\ isStreaming' = FALSE
    /\ messages' = Append(messages, ChatMessage("assistant", sends[k].streamed))
    /\ streamingContent' = <<>>
    /\ sends' = [sends EXCEPT ![k] = Ended("complete", NoFailure)]
    /\ UNCHANGED <<input, loadedFiles, showApiKeyModal, loads, storage, nonPageVars>>

\* callbacks.onError(error)
OnError ==
  \E k \in 1..Len(sends), f \in PageFailures :
    LET error == ReportedMessage(ActiveProvider, f) IN
    /\ sends[k].phase = "turn"
    /\ isStreaming' = FALSE
    /\ streamingContent' = <<>>
    /\ sends' = [sends EXCEPT ![k] = Ended("error", f)]
    /\ IF IsAuthError(error)
       THEN /\ storage' = IF storageAvailable
                          THEN removeItem(storage, storageKey(ActiveProvider)) ELSE storage
            /\ showApiKeyModal' = TRUE
            /\ UNCHANGED messages
       ELSE /\ messages' = Append(messages, ChatMessage("assistant", <<"Error: ", error>>))
            /\ UNCHANGED <<storage, showApiKeyModal>>
    /\ UNCHANGED <<input, loadedFiles, loads, nonPageVars>>

\* a click on a file of the browser that is not loaded: handleLoadFiles([path]) up to
\* its await
HandleLoadFiles ==
  \E path \in ClickedPaths :
    /\ path \notin PathsOf(loadedFiles)
    /\ Len(loads) < 2
    /\ loads' = Append(loads, [kind |-> "manual", paths |-> << path >>])
    /\ UNCHANGED <<input, isStreaming, messages, streamingContent, loadedFiles,
                   showApiKeyModal, sends, storage, nonPageVars>>

\* a click on a loaded file, or on its remove button
HandleUnloadFile ==
  \E path \in PathsOf(loadedFiles) :
    /\ loadedFiles' = SelectSeq(loadedFiles, LAMBDA f : f # path)
    /\ UNCHANGED <<input, isStreaming, messages, streamingContent, showApiKeyModal, sends,
                   loads, storage, nonPageVars>>

\* handleClearChat: a new chat resets the loaded files to the default ones
HandleClearChat ==
  /\ Len(messages) # 0
  /\ Len(loads) < 2
  /\ messages' = <<>>
  /\ loads' = Append(loads, [kind |-> "default", paths |-> DEFAULT_FILES])
  /\ sends' = [k \in 1..Len(sends) |->
                 [sends[k] EXCEPT !.previous = sends[k].phase # "ended"]]
  /\ UNCHANGED <<input, isStreaming, streamingContent, loadedFiles, showApiKeyModal,
                 storage, nonPageVars>>

\* the awaited loadFileContents of loadDefaultFiles or handleLoadFiles settles
LoadFilesReturn ==
  \E i \in 1..Len(loads) :
    /\ \E good \in SUBSET PathsOf(loads[i].paths) :
         LET validFiles == ValidFiles(loads[i].paths, good) IN
         loadedFiles' = IF loads[i].kind = "default"
                        THEN validFiles ELSE AddFiles(loadedFiles, validFiles)
    /\ loads' = SubSeq(loads, 1, i - 1) \o SubSeq(loads, i + 1, Len(loads))
    /\ UNCHANGED <<input, isStreaming, messages, streamingContent, showApiKeyModal, sends,
                   storage, nonPageVars>>

PageNext ==
  \/ TypeInput
  \/ HandleSendMessage
  \/ AutoLoadReturn
  \/ OnToken
  \/ OnComplete
  \/ OnError
  \/ HandleLoadFiles
  \/ HandleUnloadFile
  \/ HandleClearChat
  \/ LoadFilesReturn

PageSpec == PageInit /\ [][PageNext]_vars

\* ===================================== provider and model selection of the page
\* The same component: the provider menu, the API key modal and what a send hands to
\* sendMessage of brain-chat. A request that left the page is recorded in adapter and
\* modelId: the adapter it is routed to and the model id that adapter receives.
nonSelectionVars == <<input, isStreaming, messages, streamingContent, loadedFiles, sends,
                      loads, hasLoader, pureVars, pc, trace, msgs, fullResponse, usageVars,
                      toolVars, finishReason, resp, steps, abortedAt, fault, callVars,
                      vendorVars, storageAvailable>>

\* the preferences effect on mount: runMigration, then the provider and the model
\* selection of the stored preferences
SelectionInit ==
  /\ hasLoader = FALSE
  /\ PureIdle
  /\ TurnIdle
  /\ storageAvailable = TRUE
  /\ \E s \in StorageContents : storage = Migrated(s)
  /\ lastCall = NoCall
  /\ adapter = ActiveProvider
  /\ modelId = getSelectedModel(storageAvailable, storage, ActiveProvider)
  /\ input = <<>>
  /\ isStreaming = FALSE
  /\ messages = <<>>
  /\ streamingContent = <<>>
  /\ loadedFiles = <<>>
  /\ showApiKeyModal = FALSE
  /\ sends = <<>>
  /\ loads = <<>>
  /\ activeProvider = ActiveProvider
  /\ selectedModelId = getSelectedModel(storageAvailable, storage, ActiveProvider)

\* handleApiKeySuccess on storage s: the provider and the selection of the page
ApiKeySuccessSelection(s) ==
  LET models == getModelsForProvider(getActiveProvider(storageAvailable, s)) IN
  IF Len(models) > 0 /\ ~ \E k \in 1..Len(models) : models[k].id = selectedModelId
  THEN models[1].id ELSE selectedModelId

\* handleProviderChange(provider)
HandleProviderChange ==
  \E p \in ProviderIds :
    /\ ~showApiKeyModal
    /\ IF ~Truthy(getApiKey(storageAvailable, storage, p))
       THEN /\ showApiKeyModal' = TRUE
            /\ UNCHANGED <<storage, activeProvider, selectedModelId>>
       ELSE LET s1 == setItem(storage, ACTIVE_PROVIDER, p)
                first == getModelsForProvider(p)[1].id
            IN /\ storage' = setSelectedModel(storageAvailable, s1,
                                              getActiveProvider(storageAvailable, s1), first)
               /\ activeProvider' = p
               /\ selectedModelId' = first
               /\ UNCHANGED showApiKeyModal
    /\ lastCall' = Called("handleProviderChange", p, "")
    /\ UNCHANGED <<adapter, modelId, nonSelectionVars>>

\* the key button of the header opens the modal
OpenApiKeyModal ==
  /\ ~showApiKeyModal
  /\ showApiKeyModal' = TRUE
  /\ UNCHANGED <<storage, lastCall, activeProvider, selectedModelId, adapter, modelId,
                 nonSelectionVars>>

\* onClose of the modal
CloseApiKeyModal ==
  /\ showApiKeyModal
  /\ showApiKeyModal' = FALSE
  /\ UNCHANGED <<storage, lastCall, activeProvider, selectedModelId, adapter, modelId,
                 nonSelectionVars>>

\* handleSubmit of the modal with a key that validates, on the tab of provider p
ModalSaveKey ==
  \E p \in ProviderIds :
    /\ showApiKeyModal
    /\ storage' = setItem(storage, storageKey(p), "sk-1")
    /\ activeProvider' = getActiveProvider(storageAvailable, storage')
    /\ selectedModelId' = ApiKeySuccessSelection(storage')
    /\ showApiKeyModal' = FALSE
    /\ lastCall' = Called("setApiKey", p, "sk-1")
    /\ UNCHANGED <<adapter, modelId, nonSelectionVars>>

\* the delete button of the modal next to the stored key of provider p
ModalDeleteKey ==
  \E p \in ProviderIds :
    /\ showApiKeyModal
    /\ Truthy(getApiKey(storageAvailable, storage, p))
    /\ storage' = removeItem(storage, storageKey(p))
    /\ activeProvider' = getActiveProvider(storageAvailable, storage')
    /\ selectedModelId' = ApiKeySuccessSelection(storage')
    /\ lastCall' = Called("clearApiKey", p, "")
    /\ UNCHANGED <<showApiKeyModal, adapter, modelId, nonSelectionVars>>

\* handleSendMessage up to sendMessage of brain-chat, which routes the request to the
\* adapter of the active provider with modelId || getSelectedModel(provider)
SendChatRequest ==
  /\ ~showApiKeyModal
  /\ IF ~Truthy(getApiKey(storageAvailable, storage, ActiveProvider))
     THEN /\ showApiKeyModal' = TRUE
          /\ UNCHANGED <<adapter, modelId, lastCall>>
     ELSE /\ adapter' = ActiveProvider
          /\ modelId' = ForwardedOptions(storageAvailable, storage, selectedModelId,
                                         FALSE, FALSE).modelId
          /\ lastCall' = Called("sendMessage", ActiveProvider, "")
          /\ UNCHANGED showApiKeyModal
  /\ UNCHANGED <<storage, activeProvider, selectedModelId, nonSelectionVars>>

\* onError of the request with an authentication error: clearApiKey() and the modal
AuthErrorClearsKey ==
  /\ lastCall.op = "sendMessage"
  /\ storage' = removeItem(storage, storageKey(ActiveProvider))
  /\ showApiKeyModal' = TRUE
  /\ lastCall' = Called("clearApiKey", ActiveProvider, "")
  /\ UNCHANGED <<activeProvider, selectedModelId, adapter, modelId, nonSelectionVars>>

SelectionNext ==
  \/ HandleProviderChange
  \/ OpenApiKeyModal
  \/ CloseApiKeyModal
  \/ ModalSaveKey
  \/ ModalDeleteKey
  \/ SendChatRequest
  \/ AuthErrorClearsKey

SelectionSpec == SelectionInit /\ [][SelectionNext]_vars

\* ================================================================ claims
CoreNames == {"onStart", "onToken", "onUsage", "onComplete", "onError"}
Core == SelectSeq(trace, LAMBDA x : x.e \in CoreNames)
Finished == pc \in {"done", "rejected"}
Succeeded == pc = "done" /\ fault = "none" /\ ~aborted

\* the text deltas passed to onToken in tr, concatenated in emission order
RECURSIVE TokenText(_)
TokenText(tr) ==
  IF tr = <<>> THEN <<>>
  ELSE (IF Head(tr).e = "onToken" THEN Head(tr).text ELSE <<>>) \o TokenText(Tail(tr))

\* every tool result built in the turn: those of the round in progress and those
\* already appended to the conversation
AllResults ==
  {toolResults[i] : i \in 1..Len(toolResults)}
    \cup UNION {{msgs[k].results[j] : j \in 1..Len(msgs[k].results)} : k \in 1..Len(msgs)}

\* C1: a call whose stream succeeds and holds no tool call invokes onStart once,
\* then zero or more onToken, then at most one onUsage, then exactly one
\* onComplete, and never onError.
C1_NoToolCallbackOrder ==
  /\ (~toolSeen /\ fault = "none") => Count("onError") = 0
  /\ (Succeeded /\ ~toolSeen) =>
       LET cbs == Core IN
       /\ Len(cbs) >= 2
       /\ cbs[1].e = "onStart"
       /\ cbs[Len(cbs)].e = "onComplete"
       /\ \A i \in 2..(Len(cbs) - 1) :
            \/ cbs[i].e = "onToken"
            \/ cbs[i].e = "onUsage" /\ i = Len(cbs) - 1

C1_Witness ==
  /\ Succeeded /\ ~toolSeen
  /\ Count("onToken") >= 2
  /\ Count("onUsage") = 1
  /\ Count("onComplete") = 1

\* C2: if the abort signal fires while a request is in flight (the response awaited,
\* its error body being read, or its stream not yet drained), neither onComplete nor
\* onError is ever called.
C2_AbortIsSilent ==
  abortedAt \in {"fetch", "errbody", "stream"} =>
    Count("onComplete") = 0 /\ Count("onError") = 0

\* C3: the string passed to onComplete is the concatenation, in emission order, of
\* every text delta passed to onToken in all rounds of the turn.
C3_CompleteIsConcatenation ==
  \A i \in Positions("onComplete") : trace[i].text = TokenText(SubSeq(trace, 1, i))

C3_Witness ==
  /\ Succeeded
  /\ Len(Fetches) >= 2
  /\ Count("onToken") >= 1
  /\ Count("onComplete") = 1

\* the messages a continuation request adds to the conversation of the request before
Extension(k) ==
  SubSeq(Fetches[k + 1].conv, Len(Fetches[k].conv) + 1, Len(Fetches[k + 1].conv))

ExtendsPrevious(k) ==
  /\ Len(Fetches[k + 1].conv) > Len(Fetches[k].conv)
  /\ SubSeq(Fetches[k + 1].conv, 1, Len(Fetches[k].conv)) = Fetches[k].conv

IsAssistantRecord(m) ==
  m.role \in {"assistant", "model"} /\ Len(m.calls) > 0 /\ m.results = <<>>

LoadFileCalls(calls) == {i \in 1..Len(calls) : calls[i].name = "load_file"}

\* C4 as stated: every continuation request carries the previous conversation plus
\* exactly one assistant message and exactly one tool-result message.
C4_OneAssistantOneResult ==
  \A k \in 1..(Len(Fetches) - 1) :
    /\ ExtendsPrevious(k)
    /\ Len(Extension(k)) = 2
    /\ IsAssistantRecord(Extension(k)[1])
    /\ Extension(k)[2].role \in {"user", "tool"} /\ Extension(k)[2].calls = <<>>

\* C4 amended: every continuation request carries the previous conversation plus
\* exactly one assistant message with the tool-call record, followed for Anthropic
\* and Gemini by exactly one user-role message holding the round's tool results, and
\* for OpenAI by one tool-role message per pending load_file call (none when the
\* round holds no load_file call, several when it holds several); nothing else.
C4_AssistantThenResults ==
  \A k \in 1..(Len(Fetches) - 1) :
    LET ext == Extension(k) IN
    /\ ExtendsPrevious(k)
    /\ IsAssistantRecord(ext[1])
    /\ IF adapter = "openai"
       THEN /\ Len(ext) = 1 + Cardinality(LoadFileCalls(ext[1].calls))
            /\ \A j \in 2..Len(ext) :
                 ext[j].role = "tool" /\ Len(ext[j].results) = 1 /\ ext[j].calls = <<>>
       ELSE /\ Len(ext) = 2
            /\ ext[2].role = "user" /\ ext[2].calls = <<>>
            /\ Len(ext[2].results) = Cardinality(LoadFileCalls(ext[1].calls))

C4_Witness ==
  /\ Len(Fetches) >= 2
  /\ \E k \in 1..(Len(Fetches) - 1) : Len(Extension(k)[1].calls) >= 2

\* C5: a load_file call whose path the loader cannot load (no entry, or error-marked
\* content) gives the model an error tool result, raises no onError, and the turn
\* still ends with exactly one onComplete once the vendor stops asking for tools.
C5_UnloadableFileRecovers ==
  /\ \A i \in Positions("loaderReturn") :
       trace[i].outcome \in {"none", "errmark"} =>
         /\ \E r \in AllResults : r.id = trace[i].id /\ r.kind = "notfound"
         /\ \A r \in AllResults : r.id = trace[i].id => r.kind # "file"
         /\ trace[i + 1] = EvFileLoaded(trace[i].path, FALSE)
  /\ fault = "none" => Count("onError") = 0
  /\ Succeeded => Count("onComplete") = 1 /\ trace[Len(trace)].e = "onComplete"

C5_Witness ==
  /\ Succeeded
  /\ Count("onComplete") = 1
  /\ \E i \in Positions("loaderReturn") : trace[i].outcome = "errmark"
  /\ \E i \in Positions("loaderReturn") : trace[i].outcome = "none"

\* C6: sendMessage never rejects; a failure of the request, of reading the stream or
\* of a continuation request is reported through exactly one onError, the last thing
\* the call does, and without a failure onError is not called.
C6_ErrorsFunnelled ==
  /\ pc # "rejected"
  /\ fault = "none" => Count("onError") = 0
  /\ (Finished /\ fault # "none") =>
       /\ pc = "done"
       /\ Count("onError") = 1
       /\ Count("onComplete") = 0
       /\ trace[Len(trace)].e = "onError"

C6_Witness ==
  /\ pc = "done"
  /\ fault = "read"
  /\ Len(Fetches) >= 2
  /\ Count("onError") = 1

\* C7: the inputTokens and outputTokens onUsage reports equal the sums, over all
\* rounds of the turn, of the counts the vendor reported for each round.
C7_UsageIsSumOverRounds ==
  \A i \in Positions("onUsage") :
    /\ trace[i].inputTokens = sumIn + roundIn
    /\ trace[i].outputTokens = sumOut + roundOut

\* C8: onUsage is called at most once and onComplete at most once, only when the
\* last round's stream has drained, onUsage right before onComplete; a turn that
\* succeeds calls onComplete exactly once and onUsage iff a token counter is
\* positive; nothing is emitted by an intermediate tool round.
C8_UsageAndCompleteOnlyAtEnd ==
  /\ Count("onUsage") <= 1
  /\ Count("onComplete") <= 1
  /\ \A i \in Positions("onComplete") : i = Len(trace) /\ pc = "done"
  /\ \A i \in Positions("onUsage") :
       i = Len(trace) - 1 /\ trace[Len(trace)].e = "onComplete"
  /\ Succeeded =>
       /\ Count("onComplete") = 1
       /\ Count("onUsage") = 1 <=> (inputTokens > 0 \/ outputTokens > 0)

C8_Witness ==
  /\ Succeeded
  /\ Len(Fetches) >= 2
  /\ Count("onUsage") = 1
  /\ Count("onComplete") = 1

\* C9: onStart is called exactly once per call, before the first HTTP request, and
\* not again for a continuation request.
C9_StartOnceBeforeRequests ==
  /\ pc = "idle" => trace = <<>>
  /\ pc # "idle" =>
       /\ Count("onStart") = 1
       /\ trace[1].e = "onStart"
       /\ \A j \in Positions("fetch") : j > 1

C9_Witness ==
  /\ Len(Fetches) >= 2
  /\ Count("onStart") = 1

\* C10: after any sequence of setApiKey, clearApiKey, setActiveProvider and
\* runMigration calls, getActiveProvider returns one provider, which has a non-empty
\* stored key whenever some provider has one, and which is anthropic when none has.
\* A provider has a key in the sense of hasApiKey: its stored key is a non-empty
\* string.
C10_ActiveProviderHasKey ==
  LET active == getActiveProvider(storageAvailable, storage)
      keyed == {p \in ProviderIds : hasApiKey(storageAvailable, storage, p)}
  IN
  /\ active \in ProviderIds
  /\ keyed # {} => active \in keyed
  /\ keyed = {} => active = "anthropic"

C10_Witness ==
  /\ getItem(storage, ACTIVE_PROVIDER) = "gemini"
  /\ getItem(storage, storageKey("gemini")) = ""
  /\ ~hasApiKey(storageAvailable, storage, "anthropic")
  /\ hasApiKey(storageAvailable, storage, "openai")
  /\ getActiveProvider(storageAvailable, storage) = "openai"

\* C11: selecting as active a provider that has no stored key does not change the
\* active provider: getActiveProvider returns after the selection what it returned
\* before it, whatever keys are stored and whichever provider was active.
C11_KeylessSelectionIgnored ==
  (lastCall.op = "setActiveProvider"
     /\ ~hasApiKey(storageAvailable, storage, lastCall.provider))
    => getActiveProvider(storageAvailable, storage) = lastCall.before

\* C12 as stated: getApiKey(X) right after setApiKey(X, k) returns k, and right after
\* clearApiKey(X) returns null.
C12_KeyRoundTrip ==
  /\ lastCall.op = "setApiKey" =>
       getApiKey(storageAvailable, storage, lastCall.provider) = lastCall.key
  /\ lastCall.op = "clearApiKey" =>
       getApiKey(storageAvailable, storage, lastCall.provider) = Null

\* C12 amended: where localStorage is available, getApiKey(X) right after
\* setApiKey(X, k) returns k; where it is not, setApiKey stores nothing and
\* getApiKey(X) returns null; right after clearApiKey(X) it returns null in both.
C12_KeyRoundTripWithStorage ==
  /\ (lastCall.op = "setApiKey" /\ storageAvailable) =>
       getApiKey(storageAvailable, storage, lastCall.provider) = lastCall.key
  /\ (lastCall.op = "setApiKey" /\ ~storageAvailable) =>
       getApiKey(storageAvailable, storage, lastCall.provider) = Null
  /\ lastCall.op = "clearApiKey" =>
       getApiKey(storageAvailable, storage, lastCall.provider) = Null

C12_Witness ==
  /\ storageAvailable
  /\ lastCall.op = "setApiKey" /\ lastCall.provider = "openai" /\ lastCall.key = "sk-2"
  /\ getApiKey(storageAvailable, storage, "openai") = "sk-2"
  /\ getApiKey(storageAvailable, storage, "anthropic") = "sk-1"
  /\ getApiKey(storageAvailable, storage, "gemini") = Null

\* C13: for every catalog model m, calculateCost(i, o, m, w) is
\* i/1,000,000 x inputCostPerMillion(m) + o/1,000,000 x outputCostPerMillion(m)
\* + w x 0.01, and calculateCost(1000000, 0, m, 0) is inputCostPerMillion(m).
C13_CostIsLinear ==
  (fn.name = "calculateCost" /\ fn.modelId \in CatalogIds) =>
    \E k \in 1..Len(MODELS) :
      /\ MODELS[k].id = fn.modelId
      /\ ret = fn.inputTokens * MODELS[k].inputCostPerMillion
                 + fn.outputTokens * MODELS[k].outputCostPerMillion
                 + fn.webSearches * WEB_SEARCH_COST * Million
      /\ (fn.inputTokens = Million /\ fn.outputTokens = 0 /\ fn.webSearches = 0) =>
           ret = MODELS[k].inputCostPerMillion * Million

\* one million input tokens of gpt-5-nano cost its input price, 5 cents
C13_Witness ==
  /\ fn.name = "calculateCost"
  /\ fn.modelId = "gpt-5-nano"
  /\ fn.inputTokens = Million /\ fn.outputTokens = 0 /\ fn.webSearches = 0
  /\ ret = 5 * Million

\* C14: calculateCost returns 0 for a model id that is not in the catalog, whatever
\* the token counts and the web-search count, and a turn run with such a model id
\* still completes, its onUsage reporting cost 0.
C14_UnknownModelCostsNothing ==
  /\ \A id \in (UnknownIds \cup {modelId}) \ CatalogIds :
       \A i \in TokenCounts, o \in TokenCounts, w \in SearchCounts :
         calculateCost(i, o, id, w) = 0
  /\ modelId \notin CatalogIds =>
       /\ \A k \in Positions("onUsage") : trace[k].cost = 0
       /\ fault = "none" => Count("onError") = 0
       /\ Succeeded =>
            /\ Count("onComplete") = 1
            /\ Count("onUsage") = 1 <=> (inputTokens > 0 \/ outputTokens > 0)

C14_Witness ==
  /\ Succeeded
  /\ modelId \notin CatalogIds
  /\ inputTokens > 0 /\ outputTokens > 0
  /\ Count("onComplete") = 1
  /\ \E k \in Positions("onUsage") : trace[k].cost = 0 /\ trace[k].inputTokens > 0

\* C15: for a query that mentions the alias 'ethan', a recency word and no other
\* known alias, findRelevantFiles(query, tree, N) returns only markdown file paths
\* located under research/newsletters/ethan, ordered by embedded date descending, and
\* at most N of them, for every file tree.
C15_EthanRecentFiles ==
  (/\ fn.name = "findRelevantFiles"
   /\ extractKeywords(fn.query) = << EthanFolder >>
   /\ \E w \in RecencyWords : Includes(toLowerCase(fn.query), w))
    =>
    /\ Len(ret) <= fn.maxFiles
    /\ \A k \in 1..Len(ret) :
         /\ IsPrefix(EthanFolder \o <<"/">>, toLowerCase(ret[k]))
         /\ EndsWith(ret[k], <<".md">>)
    /\ \A i \in 1..Len(ret), j \in 1..Len(ret) :
         i < j => extractDateFromPath(ret[i]) >= extractDateFromPath(ret[j])

\* the cheap-tier model of each provider
CheapModelOf(p) ==
  CASE p = "anthropic" -> "claude-haiku-4-5-20251001"
    [] p = "openai" -> "gpt-5-nano"
    [] p = "gemini" -> "gemini-3-flash-preview"

\* the stored model selection of provider p in storage s, when it is a model of p
StoredSelectionOf(avail, s, p) ==
  IF avail /\ \E k \in 1..Len(MODELS) :
                MODELS[k].id = getItem(s, modelStorageKey(p)) /\ MODELS[k].provider = p
  THEN getItem(s, modelStorageKey(p)) ELSE Null

\* C16: the model id forwarded to the adapter is the explicit modelId argument when
\* one is given; otherwise the active provider's stored selection when that is a model
\* of that provider; otherwise the provider's cheap-tier default.
C16_ModelIdResolution ==
  fn.name = "sendMessage" =>
    LET p == getActiveProvider(fn.storageAvailable, fn.storage)
        stored == StoredSelectionOf(fn.storageAvailable, fn.storage, p)
    IN
    /\ ret.provider = p
    /\ ret.modelId =
         IF fn.modelId \notin {Null, ""} THEN fn.modelId
         ELSE IF stored # Null THEN stored
         ELSE CheapModelOf(p)

\* no explicit model, and the selection stored for the active provider is a model of
\* another provider: the default is forwarded
C16_Witness ==
  /\ fn.name = "sendMessage"
  /\ fn.modelId = Null
  /\ ret.provider = "anthropic"
  /\ getItem(fn.storage, modelStorageKey("anthropic")) = "gpt-5-mini"
  /\ ret.modelId = "claude-haiku-4-5-20251001"

C18_VendorErrorVerbatim ==
  (pc = "done" /\ fault = "http" /\ ~aborted) =>
    /\ Count("onError") = 1
    /\ trace[Len(trace)] =
         EvError(IF resp.msg # "" THEN resp.msg ELSE ApiErrorText(resp.status))

\* the fixed results validateKey gives for a key the vendor does not accept
InvalidKeyResults ==
  {Invalid("Invalid API key"), Invalid("API key lacks required permissions")}

\* C19: validateKey returns a result for every outcome of its request, valid = true
\* exactly when the vendor responds with a 2xx status, and for HTTP 401 and HTTP 403
\* the invalid-key result instead of the vendor's own error message (every adapter).
C19_ValidateKeyMapping ==
  fn.name = "validateKey" =>
    /\ ret.valid \in BOOLEAN
    /\ ret.valid <=> (fn.response.kind = "http" /\ IsOk(fn.response.status))
    /\ (fn.response.kind = "http" /\ fn.response.status \in {401, 403}) =>
         ret \in InvalidKeyResults

\* C20: once the abort signal has fired at any point of a turn, no further streaming
\* request of that turn is in flight, and the turn ends without onComplete and
\* without onError.
C20_AbortHaltsTurn ==
  aborted =>
    /\ pc \in {"loading", "done"}
    /\ Count("onComplete") = 0
    /\ Count("onError") = 0

\* the tool rounds completed so far: each appended one assistant-role message
Rounds == Cardinality({k \in 1..Len(msgs) : msgs[k].role \in {"assistant", "model"}})

\* C21: a streaming request that fails with a network error or a non-2xx status is
\* not issued again: the turn made one request per round and none after the failure,
\* and the onError that reports the failure directly follows the failed request.
C21_NoRetry ==
  fault \in {"network", "http"} =>
    /\ Len(Fetches) = Rounds + 1
    /\ trace[Len(trace)].e \in {"fetch", "onError"}
    /\ trace[Len(trace)].e = "fetch" <=> pc = "errbody"
    /\ trace[Len(trace)].e = "onError" =>
         /\ pc = "done"
         /\ trace[Len(trace) - 1].e = "fetch"
         /\ Count("onError") = 1

C21_Witness ==
  /\ pc = "done"
  /\ fault \in {"network", "http"}
  /\ Len(Fetches) = 2
  /\ trace[Len(trace)].e = "onError"

\* the finish state by which the vendor says that the model wants to call a tool
\* (Gemini has none of its own: its function calls arrive as parts of the stream)
ToolCallTerminalState(a, reason) ==
  CASE a = "anthropic" -> reason = "tool_use"
    [] a = "openai" -> reason = "tool_calls"
    [] a = "gemini" -> TRUE

HasLoadFileCall(pend) == \E i \in 1..Len(pend) : pend[i].name = "load_file"

\* C22: after a stream drains, the adapter goes on to the tool loop and a continuation
\* request only if the stream ended in the vendor's tool-call terminal state, at
\* least one pending call is a load_file call and a file loader was supplied; a
\* drained stream that does not lead there ends the turn with onComplete.
C22_ContinuationOnlyForLoadFile ==
  [][ /\ (pc = "stream" /\ pc' \in {"loading", "fetch"}) =>
           /\ ToolCallTerminalState(adapter, finishReason)
           /\ HasLoadFileCall(pending)
           /\ hasLoader
      /\ (pc = "stream" /\ pc' = "done" /\ fault' = "none" /\ abortedAt' = "no") =>
           /\ trace'[Len(trace')].e = "onComplete"
           /\ Len(SelectSeq(trace', LAMBDA x : x.e = "fetch")) = Len(Fetches)
    ]_vars

\* the tool loop has run to its end for every round whose calls are in made
RoundsResolved ==
  \/ pc = "fetch" /\ Rounds >= 1
  \/ pc = "done" /\ abortedAt = "loading"

\* where the conversation holds a tool result for the call with this id
ResultSlots(id) ==
  { <<k, j>> \in (1..Len(msgs)) \X (1..MaxSteps) :
      j <= Len(msgs[k].results) /\ msgs[k].results[j].id = id }

\* C23: every load_file call the model makes in a round gets exactly one tool result
\* and exactly one onFileLoaded: (path, true) and a "File:" result when the loader
\* returns content without the error marker; (path, false) and an error result when
\* the content is error-marked, the arguments do not parse or the loader throws;
\* none of these calls onError.
C23_OneResultPerLoadFileCall ==
  /\ fault = "none" => Count("onError") = 0
  /\ RoundsResolved =>
       /\ Count("onFileLoaded") = Len(made)
       /\ \A n \in 1..Len(made) :
            LET c == made[n] IN
            /\ Cardinality(ResultSlots(c.id)) = 1
            /\ \A s \in ResultSlots(c.id) :
                 LET r == msgs[s[1]].results[s[2]] IN
                 IF c.arg \notin Paths
                 THEN r.kind # "file"
                 ELSE \E i \in Positions("loaderReturn") :
                        /\ trace[i].id = c.id
                        /\ trace[i + 1] = EvFileLoaded(c.arg, trace[i].outcome = "ok")
                        /\ r.kind = "file" <=> trace[i].outcome = "ok"

\* C24: onFileLoad(path), with the path parsed from the call's arguments, directly
\* precedes every invocation of the file loader, and every onFileLoaded(p, ok) is
\* preceded by an onFileLoad(p) with the same p and followed by no loader activity
\* for the call it closes.
C24_LoadAnnouncedBeforeLoaded ==
  /\ \A i \in Positions("loader") :
       /\ i > 1
       /\ trace[i - 1] = EvFileLoad(trace[i].path)
  /\ \A j \in Positions("onFileLoaded") :
       /\ \E i \in 1..(j - 1) : trace[i] = EvFileLoad(trace[j].path)
       /\ trace[j - 1].e = "loaderReturn" =>
            \A k \in (j + 1)..Len(trace) :
              trace[k].e \in {"loader", "loaderReturn"} => trace[k].id # trace[j - 1].id

\* the ids of the tool results of a conversation, in the order the model reads them
\* (ids number the calls of a turn in the order the streams delivered them)
RECURSIVE ResultIds(_)
ResultIds(conv) ==
  IF conv = <<>> THEN <<>>
  ELSE [j \in 1..Len(Head(conv).results) |-> Head(conv).results[j].id]
         \o ResultIds(Tail(conv))

LoaderOutstanding == Count("loader") - Count("loaderReturn")

\* C25: the pending calls of a round are resolved one at a time in stream order: at
\* most one file-loader invocation is outstanding at any moment, each returns before
\* the next starts, and the tool results reach the model in the order of the calls.
C25_ToolsResolvedInOrder ==
  /\ LoaderOutstanding \in {0, 1}
  /\ LoaderOutstanding = 1 <=> pc = "loading"
  /\ \A i \in Positions("loader") :
       i < Len(trace) =>
         /\ trace[i + 1].e = "loaderReturn"
         /\ trace[i + 1].id = trace[i].id
  /\ \A i, j \in Positions("loader") : i < j => trace[i].id < trace[j].id
  /\ LET ids == ResultIds(msgs) \o [j \in 1..Len(toolResults) |-> toolResults[j].id] IN
     \A i, j \in 1..Len(ids) : i < j => ids[i] < ids[j]

C25_Witness ==
  /\ pc = "fetch"
  /\ Count("loaderReturn") = 2
  /\ \E k \in 1..Len(msgs) : Len(ResultIds(<< msgs[k] >>)) >= 1
  /\ Len(ResultIds(msgs)) = 2
  /\ Rounds = 1

\* C27: if no request fails, the abort signal never fires, and from some point on the
\* vendor's streams ask for no tool, then sendMessage eventually calls onComplete,
\* after however many tool rounds the vendor asked for before.
C27_EventuallyComplete ==
  ( [](fault = "none" /\ ~aborted)
    /\ <>[](pc = "stream" => ~WantsTools(adapter, finishReason, pending, hasLoader)) )
  => <>(pc = "done" /\ Count("onComplete") = 1)

\* a turn completed after as many tool rounds as the bound on the vendor's events admits
C27_Witness ==
  /\ Succeeded
  /\ Count("onComplete") = 1
  /\ Rounds >= 1
  /\ 2 * Rounds + 2 > MaxSteps

\* the sends that were accepted and have not ended, and those whose chat request is out
OpenSends == {k \in 1..Len(sends) : sends[k].phase # "ended"}
RequestsInFlight == {k \in 1..Len(sends) : sends[k].phase = "turn"}

\* C26: at most one chat request is in flight for the conversation at any moment: the
\* chat page starts no second turn while an accepted send has not ended with
\* onComplete or onError.
C26_OneTurnAtATime ==
  /\ Cardinality(OpenSends) <= 1
  /\ Cardinality(RequestsInFlight) <= 1

\* C28: when reading the stream fails after text deltas were delivered, the turn ends
\* with onError, and the text already streamed stays on the page: in the streaming
\* bubble or in a message.
C28_PartialTextRetained ==
  [][ \A k \in 1..Len(sends) :
        ( /\ sends[k].phase = "turn"
          /\ sends[k].streamed # <<>>
          /\ sends'[k].phase = "ended"
          /\ sends'[k].failure.kind = "read" )
        => /\ sends'[k].end = "error"
           /\ \/ Includes(streamingContent', sends[k].streamed)
              \/ \E i \in 1..Len(messages') :
                   Includes(messages'[i].content, sends[k].streamed)
    ]_vars

\* C29: when the vendor rejects the chat request with HTTP 401, the chat page clears
\* the stored key and opens the key dialog, and appends no error message.
C29_AuthErrorPromptsReentry ==
  [][ \A k \in 1..Len(sends) :
        ( /\ sends[k].phase = "turn"
          /\ sends'[k].phase = "ended"
          /\ sends'[k].failure.kind = "http"
          /\ sends'[k].failure.status = 401 )
        => /\ ~Truthy(getApiKey(storageAvailable', storage', ActiveProvider))
           /\ showApiKeyModal'
           /\ messages' = messages
    ]_vars

\* C30: whatever the interleaving of default-file loading, manual loads, auto-loads of
\* a send, unloads and new-chat resets, no path occurs twice in the loaded files.
C30_OneEntryPerPath ==
  \A i, j \in 1..Len(loadedFiles) : i # j => loadedFiles[i] # loadedFiles[j]

\* default file and auto-loaded file both loaded, after a send and a new chat, while a
\* manual load is still awaited
C30_Witness ==
  /\ PathsOf(loadedFiles) = {ClaudeMd, EthanFile}
  /\ Len(sends) >= 1
  /\ messages = <<>>
  /\ \E i \in 1..Len(loads) : loads[i].kind = "manual"

\* the step is handleUnloadFile(p)
IsUnloadOf(p) ==
  /\ loadedFiles' = SelectSeq(loadedFiles, LAMBDA f : f # p)
  /\ sends' = sends /\ loads' = loads
\* the step is the reset of the loaded files that loadDefaultFiles performs
IsDefaultReset ==
  \E i \in 1..Len(loads) :
    /\ loads[i].kind = "default"
    /\ loads' = SubSeq(loads, 1, i - 1) \o SubSeq(loads, i + 1, Len(loads))

\* C31: a file leaves the loaded files only by an unload of its path or by the reset
\* to the default files, also when a manual load overlaps the auto-load of a send.
C31_FilesLeaveOnlyByUnloadOrReset ==
  [][ \A p \in PathsOf(loadedFiles) \ PathsOf(loadedFiles') :
        IsUnloadOf(p) \/ IsDefaultReset ]_vars

\* C32: a turn issued before a new-chat reset adds no message to the conversation
\* after the reset, also when it is still streaming when the chat is reset.
C32_NoMessageOfPreviousConversation ==
  [][ \A k \in 1..Len(sends) :
        sends[k].previous /\ sends[k].phase # "ended" /\ sends'[k].phase = "ended"
          => messages' = messages ]_vars

\* the storage after the user selects catalog model i of provider p
Selected(s, p, i) == setSelectedModel(storageAvailable, s, p, getModelsForProvider(p)[i].id)

\* C33: once runMigration has run on the stored content, a later run changes nothing,
\* in particular not a model selection made for a provider after the first run.
C33_MigrationRunsOnce ==
  storageAvailable =>
    LET first == Migrated(storage) IN
    /\ Migrated(first) = first
    /\ \A p \in ProviderIds : \A i \in 1..Len(getModelsForProvider(p)) :
         Migrated(Selected(first, p, i)) = Selected(first, p, i)

\* the tool of a request that provides a capability the prompt names
ToolOf(capability) ==
  CASE capability = "Web Search" -> "web_search"
    [] capability = "URL Fetch" -> "web_fetch"
    [] capability = "Code Execution" -> "code_execution"

\* C34: the tools section of the system prompt names a capability only if the request
\* to the active provider carries the tool of that capability.
C34_NamedToolsAreRequested ==
  fn.name = "handleSendMessage" =>
    \A i \in 1..Len(ret.named) : ToolOf(ret.named[i]) \in ret.tools

\* the number of folder keywords of the query that occur in the path
ScoreOf(query, path) ==
  LET keywords == extractKeywords(query) IN
  Cardinality({k \in 1..Len(keywords) : Includes(toLowerCase(path), keywords[k])})
\* path p ranks at least as high as path q: higher score, or equal score and no
\* older date
RanksNoLower(query, p, q) ==
  \/ ScoreOf(query, p) > ScoreOf(query, q)
  \/ /\ ScoreOf(query, p) = ScoreOf(query, q)
     /\ extractDateFromPath(p) >= extractDateFromPath(q)
NoRecencyQuery ==
  /\ fn.name = "findRelevantFiles"
  /\ Len(extractKeywords(fn.query)) >= 1
  /\ ~ \E w \in RecencyWords : Includes(toLowerCase(fn.query), w)

\* C35: for a query that matches an alias and contains no recency word,
\* findRelevantFiles returns the candidates ordered by score descending, then by
\* embedded date descending (0 for an undated path), and at most maxFiles of them:
\* the highest-ranking ones.
C35_ScoreThenDate ==
  NoRecencyQuery =>
    LET candidates == searchTreeForKeywords(fn.tree, extractKeywords(fn.query), <<>>) IN
    /\ Len(ret) <= fn.maxFiles
    /\ Len(ret) = IF fn.maxFiles < Len(candidates) THEN fn.maxFiles ELSE Len(candidates)
    /\ \A i \in 1..Len(ret) : ret[i] \in PathsOf(candidates)
    /\ \A i \in 1..Len(ret), j \in 1..Len(ret) :
         i < j => RanksNoLower(fn.query, ret[i], ret[j])
    /\ \A i \in 1..Len(ret) : \A c \in PathsOf(candidates) \ PathsOf(ret) :
         RanksNoLower(fn.query, ret[i], c)

\* of two files of equal score the dated one comes first, and the limit cuts off a
\* dated file of lower score rather than the undated file of higher score
C35_Witness ==
  /\ NoRecencyQuery
  /\ Len(ret) = 2
  /\ ScoreOf(fn.query, ret[1]) = ScoreOf(fn.query, ret[2])
  /\ extractDateFromPath(ret[1]) > 0
  /\ extractDateFromPath(ret[2]) = 0
  /\ \E c \in PathsOf(searchTreeForKeywords(fn.tree, extractKeywords(fn.query), <<>>))
                \ PathsOf(ret) :
       /\ ScoreOf(fn.query, c) < ScoreOf(fn.query, ret[2])
       /\ extractDateFromPath(c) > 0

\* C36: the model id of every request that leaves the page is a catalog model of the
\* provider the request is routed to.
C36_ModelOfRoutedProvider ==
  lastCall.op = "sendMessage" =>
    \E k \in 1..Len(MODELS) : MODELS[k].id = modelId /\ MODELS[k].provider = adapter

\* the positions of the assistant-role messages that record tool calls
AssistantRecords == {k \in 1..Len(msgs) : IsAssistantRecord(msgs[k])}
\* the ids of the tool results that answer the assistant message at position k: those
\* of the messages up to the next assistant record
AnswersTo(k) ==
  LET later == {n \in AssistantRecords : n > k}
      last == IF later = {} THEN Len(msgs) ELSE (CHOOSE n \in later : \A x \in later : n <= x) - 1
  IN ResultIds(SubSeq(msgs, k + 1, last))

\* C37: in the conversation of every continuation request each tool call recorded in
\* an appended assistant message has exactly one tool result, and each tool result
\* answers a recorded call, whatever the name of the requested tool.
C37_CallsAndResultsPaired ==
  \A k \in AssistantRecords :
    LET calls == msgs[k].calls
        answers == AnswersTo(k)
    IN /\ \A i \in 1..Len(calls) :
            Cardinality({j \in 1..Len(answers) : answers[j] = calls[i].id}) = 1
       /\ \A j \in 1..Len(answers) : \E i \in 1..Len(calls) : calls[i].id = answers[j]

\* C38: a file the file-retrieval endpoint reports as failed is not reported through
\* onFileLoaded(path, true), not sent to the model as "File: <path>" content and not
\* added to the loaded files.
C38_FailedFileNotLoaded ==
  (fn.name = "loadFileContents" /\ ret.failed) =>
    /\ ~ret.onFileLoaded.success
    /\ ~IsPrefix(<<"File: ">>, ret.toolResult)
    /\ ret.validFiles = <<>>

\* the position in the trace of the n-th request of the turn
NthFetch(n) ==
  CHOOSE i \in Positions("fetch") : Cardinality({j \in Positions("fetch") : j <= i}) = n
\* the text the stream of the n-th request delivered
RoundText(n) ==
  TokenText(SubSeq(trace, NthFetch(n),
                   IF n < Len(Fetches) THEN NthFetch(n + 1) - 1 ELSE Len(trace)))

\* C39: in every conversation sent to the vendor the assistant message appended after
\* round k carries the text streamed in round k and no text of an earlier round, so
\* each streamed delta is sent back once.
C39_RoundTextOnce ==
  Len(Fetches) >= 1 =>
    LET records == SelectSeq(Fetches[Len(Fetches)].conv, IsAssistantRecord) IN
    \A k \in 1..Len(records) : records[k].text = RoundText(k)

\* the lines of a body that a line feed ends, in order
TerminatedLines(body) ==
  LET at == {i \in 1..Len(body) : body[i] = "\n"}
      Nth(n) == CHOOSE i \in at : Cardinality({j \in at : j <= i}) = n
  IN [n \in 1..Cardinality(at) |->
        SubSeq(body, (IF n = 1 THEN 0 ELSE Nth(n - 1)) + 1, Nth(n) - 1)]

\* C40: the events of a response depend on its content only, not on how the network
\* cut it into chunks: the data of every data line that a line feed ends is handled
\* once and in the order of the body, also when the line arrives in several chunks.
C40_ChunkingInvisible ==
  fn.name = "readStream" => ret = DataEvents(TerminatedLines(fn.body))

\* two data lines of which the first arrives in three chunks, cut inside its prefix
C40_Witness ==
  /\ fn.name = "readStream"
  /\ Len(ret) = 2
  /\ Len(fn.chunks) >= 3
  /\ fn.chunks[1] = <<"da">>
  /\ "\n" \notin {fn.chunks[2][i] : i \in 1..Len(fn.chunks[2])}

====
